---- MODULE Spec2Model ----
(***************************************************************************)
(* Software MMU of the ARM KVM port (arch/arm/kvm/arm_mmu.c): the guest    *)
(* page-table walker gva_to_gfn and the shadow page-table manager.         *)
(*                                                                         *)
(* Words are naturals.  TLC's integers are 32-bit signed, so every guest   *)
(* address and descriptor the specifications draw has bit 31 clear; all    *)
(* bit positions 0..30 are the source's.  The build modelled is            *)
(* __LINUX_ARM_ARCH__ >= 6 (the #if branches of arm_mmu.c that test it).   *)
(***************************************************************************)
EXTENDS Integers, Sequences, FiniteSets, TLC

VARIABLES
    vcpu,       \* guest CP15 state the walker reads: c3_DACR, MMU enable, XP bit, TTBR
    memslots,   \* kvm->memslots[0 .. KVM_MEMORY_SLOTS-1]: base_gfn, npages
    gmem,       \* guest page-table memory: guest physical address -> 32-bit word
    req,        \* the caller's request: gva, uaccess, and whether it is a write
    walk,       \* position and result of gva_to_gfn: pc, ret, gfn, map_info, reads
    roots,          \* kvm_shadow_pgtable structs: state, pgd (L1 index -> word), guest_ttbr
    shadow_list,    \* vcpu->arch.shadow_pgtable_list
    frames,         \* host page frames for L2 tables: free, page_private, four 1 KiB tables
    l2_unused_pt,   \* vcpu->arch.l2_unused_pt (0 is NULL)
    host_vectors_high,  \* vcpu->arch.host_vectors_high
    pages,          \* guest pages: references taken, releases (clean, dirty)
    sh,             \* last shadow call: op, call (arguments), ret; halted after BUG(); ops
    excp            \* fault injection: guest_exception, c5_IFSR, c5_DFSR, c6_FAR,
                    \* exception_pending, and the last call
VARIABLES
    codec           \* an L2 descriptor word on its way through decoding and encoding
VARIABLES
    smp             \* two virtual CPUs at work on their shadow tables, one memory
                    \* access at a time: pgd, l2_unused_pt, page_private, pc
VARIABLES
    hva             \* the last call of gva_to_hva: pc, the walk's return value, the result
VARIABLES
    scan            \* __free_l1_shadow_children one iteration at a time: pc, i,
                    \* l1_pte, and the highest index of pgd that was accessed
VARIABLES
    vdev,           \* a VFIO platform device: refcnt, regions, irqs, and each caller's pc
    virq            \* one VFIO platform interrupt: masked, the line's disable
                    \* depth, trigger, and each context's pc

wvars == <<memslots, gmem, req, walk>>
svars == <<roots, shadow_list, frames, l2_unused_pt, host_vectors_high, pages, sh>>
ovars == <<hva, scan, vdev, virq>>
vars == <<vcpu, wvars, svars, excp, codec, smp, ovars, ovars>>

(***************************************************************************)
(* Bit fields.  x & mask for a contiguous mask is Field, (x >> lo) & m is  *)
(* Bits; an OR of disjoint fields is their sum.                            *)
(***************************************************************************)
Bits(w, lo, n) == (w \div (2^lo)) % (2^n)
Field(w, lo, n) == Bits(w, lo, n) * (2^lo)

\* ---- bounds of the model ------------------------------------------------
NumSlots == 3          \* stands for KVM_MEMORY_SLOTS
GfnBits == 28          \* width of gfn_t in the model (u64 in the source)

\* ---- program constants --------------------------------------------------
PAGE_SHIFT == 12
FSR_TRANS_SEC == 5
FSR_TRANS_PAGE == 7
FSR_DOMAIN_SEC == 9
FSR_DOMAIN_PAG == 11
FSR_PERM_SEC == 13
FSR_PERM_PAGE == 15
L1_TYPE_FAULT == 0
L1_TYPE_COARSE == 1
L1_TYPE_SECTION == 2
L2_TYPE_FAULT == 0
L2_TYPE_LARGE == 1
L2_TYPE_SMALL == 2
L2_TYPE_EXT_SMALL == 3
L2_XP_TYPE_EXT_SMALL == 2
DOMAIN_NOACCESS == 0
DOMAIN_CLIENT == 1
DOMAIN_MANAGER == 3
EINVAL == 22
EFAULT == 14
INVISIBLE_START == 16777215     \* 0xffffff
NoGfn == -1                     \* *gfn not written by the call
Unset == -1                     \* a map_info field not written by the call

FaultCodes == {FSR_TRANS_SEC, FSR_TRANS_PAGE, FSR_DOMAIN_SEC, FSR_DOMAIN_PAG,
               FSR_PERM_SEC, FSR_PERM_PAGE}

KVM_AP_NONE == "none"
KVM_AP_RDONLY == "rdonly"
KVM_AP_RDWRITE == "rdwrite"

\* u8 value of (v << n): the low eight bits of the shifted value.
U8Shl(v, n) == IF n >= 8 THEN 0 ELSE (v * (2^n)) % 256

\* kvm_decode_ap(vcpu, ap, uaccess): the access a 2-bit AP field grants to
\* the privilege level (S and R bits clear).
kvm_decode_ap(ap, uaccess) ==
    CASE ap % 4 = 0 -> KVM_AP_NONE
      [] ap % 4 = 1 -> IF uaccess = 1 THEN KVM_AP_NONE ELSE KVM_AP_RDWRITE
      [] ap % 4 = 2 -> IF uaccess = 1 THEN KVM_AP_RDONLY ELSE KVM_AP_RDWRITE
      [] OTHER -> KVM_AP_RDWRITE

\* a write-permission check in place of the any-access check
ap_denied_W(domain_type, ap, uaccess) ==
    domain_type = DOMAIN_CLIENT /\ kvm_decode_ap(ap, uaccess) # KVM_AP_RDWRITE

\* The Client-domain permission check of the walker:
\* if (domain_type == DOMAIN_CLIENT) if (kvm_decode_ap(vcpu, ap, uaccess) == KVM_AP_NONE)
ap_denied(domain_type, ap, uaccess) ==
    domain_type = DOMAIN_CLIENT /\ kvm_decode_ap(ap, uaccess) = KVM_AP_NONE

\* kvm_is_visible_gfn(kvm, gfn): gfn lies in a registered memory slot.
kvm_is_visible_gfn(slots, gfn) ==
    \E i \in 1..NumSlots :
        /\ slots[i].base_gfn <= gfn
        /\ gfn < slots[i].base_gfn + slots[i].npages

\* the candidate is a slot's first frame instead of the frame below it
RECURSIVE invisible_gfn_loop_B(_, _, _)
invisible_gfn_loop_B(slots, i, gfn) ==
    IF i > NumSlots THEN gfn
    ELSE IF ~kvm_is_visible_gfn(slots, gfn) THEN gfn
    ELSE invisible_gfn_loop_B(slots, i + 1, slots[i].base_gfn % (2^GfnBits))

\* invisible_gfn(), the for-loop from iteration i on (slots are 1-based here).
RECURSIVE invisible_gfn_loop(_, _, _)
invisible_gfn_loop(slots, i, gfn) ==
    IF i > NumSlots THEN gfn
    ELSE IF ~kvm_is_visible_gfn(slots, gfn) THEN gfn
    ELSE invisible_gfn_loop(slots, i + 1,
                            (slots[i].base_gfn - 1) % (2^GfnBits))

\* invisible_gfn(kvm): the gfn returned, and whether BUG_ON fired instead.
invisible_gfn(slots) ==
    LET gfn == invisible_gfn_loop(slots, 1, INVISIBLE_START)
    IN  [gfn |-> gfn, bug |-> kvm_is_visible_gfn(slots, gfn)]

\* the read error is dropped (the function's trailing "return 0")
get_guest_pgtable_entry_Z(mem, table_entry) ==
    [err |-> 0, entry |-> IF table_entry \in DOMAIN mem THEN mem[table_entry] ELSE 0]

\* get_guest_pgtable_entry / kvm_read_guest: the word at table_entry, or -EFAULT.
get_guest_pgtable_entry(mem, table_entry) ==
    IF table_entry \in DOMAIN mem
    THEN [err |-> 0, entry |-> mem[table_entry]]
    ELSE [err |-> -EFAULT, entry |-> 0]

is_supersection(l1_entry) == Bits(l1_entry, 18, 1) # 0

\* l1_domain_access: the domain number stored in map_info and the value returned.
\* "type" is a u8: the masked DACR field is truncated to eight bits before the shift.
l1_domain_access(dacr, l1_entry) ==
    LET domain == IF is_supersection(l1_entry) THEN 0 ELSE Bits(l1_entry, 5, 4)
        type == U8Shl(dacr[domain], 2 * domain)
    IN  [domain_number |-> domain, type |-> type \div (2^(2 * domain))]

Rep4(ap) == ap + ap * 4 + ap * 16 + ap * 64

\* A result of the walker or of one of its stages.
Result(ret, gfn, mi, bug) == [ret |-> ret, gfn |-> gfn, mi |-> mi, bug |-> bug]

\* trans_coarse_entry_xp
trans_coarse_entry_xp(v, slots, gva, desc, gfn, domain_type, uaccess, mi) ==
    CASE Bits(desc, 0, 2) = L2_TYPE_FAULT ->
            LET inv == invisible_gfn(slots)
            IN  IF inv.bug THEN Result(0, gfn, mi, TRUE)
                ELSE Result(FSR_TRANS_PAGE, inv.gfn, mi, FALSE)
      [] Bits(desc, 0, 2) = L2_TYPE_LARGE ->
            Result(0, gfn, mi, TRUE)                 \* KVMARM_NOT_IMPLEMENTED()
      [] Bits(desc, 0, 2) \in {L2_XP_TYPE_EXT_SMALL, L2_XP_TYPE_EXT_SMALL + 1} ->
            LET ap == Bits(desc, 4, 2)
                mi2 == [mi EXCEPT !.ap = ap,
                                  !.apx = Bits(desc, 9, 1),
                                  !.xn = Bits(desc, 0, 1),
                                  !.cache_bits = Field(desc, 2, 2) + Bits(desc, 6, 3) * 16]
                ret == IF ap_denied(domain_type, ap, uaccess)
                       THEN FSR_PERM_PAGE ELSE 0
                page_base == Field(desc, 12, 20)
                page_index == Field(gva, 0, 12)
            IN  Result(ret, (page_base + page_index) \div (2^PAGE_SHIFT), mi2, FALSE)
      [] OTHER -> Result(-EINVAL, gfn, mi, FALSE)    \* unknown L2 descriptor type

\* trans_coarse_entry
trans_coarse_entry(v, slots, gva, desc, gfn, domain_type, uaccess, mi) ==
    CASE Bits(desc, 0, 2) = L2_TYPE_FAULT ->
            LET inv == invisible_gfn(slots)
            IN  IF inv.bug THEN Result(0, gfn, mi, TRUE)
                ELSE Result(FSR_TRANS_PAGE, inv.gfn, mi, FALSE)
      [] Bits(desc, 0, 2) = L2_TYPE_LARGE ->
            Result(0, gfn, mi, TRUE)                 \* KVMARM_NOT_IMPLEMENTED()
      [] Bits(desc, 0, 2) = L2_TYPE_SMALL ->
            LET ap == Bits(desc, 4, 8)
                mi2 == [mi EXCEPT !.ap = ap]
                mixed == \/ Bits(ap, 0, 2) # Bits(ap, 2, 2)
                         \/ Bits(ap, 0, 2) # Bits(ap, 4, 2)
                         \/ Bits(ap, 0, 2) # Bits(ap, 6, 2)
                subpage == Bits(gva, 10, 2)
                sap == Bits(desc, 4 + subpage * 2, 2)
                ret == IF ap_denied(domain_type, sap, uaccess)
                       THEN FSR_PERM_PAGE ELSE 0
                page_base == Field(desc, 12, 20)
                page_index == Field(gva, 0, 12)
            IN  IF v.mmu_xp THEN Result(-EINVAL, gfn, mi, FALSE)
                ELSE IF mixed THEN Result(-EINVAL, gfn, mi2, FALSE)
                ELSE Result(ret, (page_base + page_index) \div (2^PAGE_SHIFT),
                            [mi2 EXCEPT !.cache_bits = Field(desc, 2, 2)], FALSE)
      [] Bits(desc, 0, 2) = L2_TYPE_EXT_SMALL ->
            LET ap == Bits(desc, 4, 2)
                mi2 == [mi EXCEPT !.ap = Rep4(ap),
                                  !.cache_bits = Field(desc, 2, 2) + Bits(desc, 6, 3) * 16]
                ret == IF ap_denied(domain_type, ap, uaccess)
                       THEN FSR_PERM_PAGE ELSE 0
                page_base == Field(desc, 12, 20)
                page_index == Field(gva, 0, 12)
            IN  Result(ret, (page_base + page_index) \div (2^PAGE_SHIFT), mi2, FALSE)
      [] OTHER -> Result(0, gfn, mi, TRUE)           \* default: BUG()

\* the frame taken with the L1 index shift
gva_to_gfn_mmu_off_S(gva, mi) ==
    Result(0, gva \div (2^20),
           [domain_number |-> 0, ap |-> 255, apx |-> 0, xn |-> 0, cache_bits |-> 12],
           FALSE)

\* gva_to_gfn, guest MMU disabled (GVA == GPA)
gva_to_gfn_mmu_off(gva, mi) ==
    Result(0, gva \div (2^PAGE_SHIFT),
           [domain_number |-> 0, ap |-> 255, apx |-> 0, xn |-> 0, cache_bits |-> 12],
           FALSE)

\* gva_to_gfn, case L1_TYPE_FAULT
gva_to_gfn_l1_fault(slots, gfn, mi) ==
    LET inv == invisible_gfn(slots)
    IN  IF inv.bug THEN Result(0, gfn, mi, TRUE)
        ELSE Result(FSR_TRANS_SEC, inv.gfn, mi, FALSE)

\* the L2 stage's code wins over the L1 domain fault
coarse_ret_L2(ret, err) == IF err > 0 THEN err ELSE ret

\* gva_to_gfn, case L1_TYPE_COARSE: the value returned once both stages are done
coarse_ret(ret, err) == IF ret = 0 /\ err > 0 THEN err ELSE ret

\* gva_to_gfn, case L1_TYPE_COARSE; "read" is the L2 address when it was read
gva_to_gfn_coarse(v, slots, mem, gva, uaccess, l1_entry, gfn, mi) ==
    LET da == l1_domain_access(v.c3_DACR, l1_entry)
        domain_type == da.type
        mi1 == [mi EXCEPT !.domain_number = da.domain_number]
        ret == IF domain_type = DOMAIN_NOACCESS THEN FSR_DOMAIN_PAG ELSE 0
        l2_base == Field(l1_entry, 10, 22)
        l2_index == Bits(gva, 12, 8) * 4
        rd == get_guest_pgtable_entry(mem, l2_base + l2_index)
        t == IF v.mmu_xp
             THEN trans_coarse_entry_xp(v, slots, gva, rd.entry, gfn, domain_type,
                                        uaccess, mi1)
             ELSE trans_coarse_entry(v, slots, gva, rd.entry, gfn, domain_type,
                                     uaccess, mi1)
    IN  [read |-> <<l2_base + l2_index>>,
         res |-> IF rd.err < 0 THEN Result(rd.err, gfn, mi1, FALSE)
                 ELSE IF t.bug THEN t
                 ELSE IF t.ret < 0 THEN t
                 ELSE [t EXCEPT !.ret = coarse_ret(ret, t.ret)]]

\* a supersection addressed like a section
section_frame_1M(v, gva, l1_entry) ==
    [err |-> 0,
     gfn |-> (Field(l1_entry, 20, 12) + Field(gva, 0, 20)) \div (2^PAGE_SHIFT)]

\* gva_to_gfn, case L1_TYPE_SECTION, "Finally, calculate address"
section_frame(v, gva, l1_entry) ==
    IF v.mmu_xp /\ is_supersection(l1_entry)
    THEN IF Bits(l1_entry, 20, 4) # 0 \/ Bits(l1_entry, 5, 4) # 0
         THEN [err |-> -EINVAL, gfn |-> NoGfn]
         ELSE [err |-> 0,
               gfn |-> (Field(l1_entry, 24, 8) + Field(gva, 0, 24)) \div (2^PAGE_SHIFT)]
    ELSE [err |-> 0,
          gfn |-> (Field(l1_entry, 20, 12) + Field(gva, 0, 20)) \div (2^PAGE_SHIFT)]

\* gva_to_gfn, case L1_TYPE_SECTION, returning a fault before the address is
\* calculated
gva_to_gfn_section_early(v, gva, uaccess, l1_entry, gfn, mi) ==
    LET da == l1_domain_access(v.c3_DACR, l1_entry)
        f == section_frame(v, gva, l1_entry)
    IN  IF f.err < 0 THEN Result(f.err, gfn, mi, FALSE)
        ELSE IF da.type = DOMAIN_NOACCESS THEN Result(FSR_DOMAIN_SEC, gfn, mi, FALSE)
        ELSE IF ap_denied(da.type, Bits(l1_entry, 10, 2), uaccess)
             THEN Result(FSR_PERM_SEC, gfn, mi, FALSE)
        ELSE Result(0, f.gfn, mi, FALSE)

\* gva_to_gfn, case L1_TYPE_SECTION
gva_to_gfn_section(v, gva, uaccess, l1_entry, gfn, mi) ==
    LET ap == Bits(l1_entry, 10, 2)
        mi1 == [mi EXCEPT !.ap = Rep4(ap),
                          !.apx = IF v.mmu_xp THEN Bits(l1_entry, 14, 1) ELSE @,
                          !.xn = IF v.mmu_xp THEN Bits(l1_entry, 4, 1) ELSE @,
                          !.cache_bits = Field(l1_entry, 2, 2) + Bits(l1_entry, 10, 3) * 16]
        da == l1_domain_access(v.c3_DACR, l1_entry)
        mi2 == [mi1 EXCEPT !.domain_number = da.domain_number]
        ret == IF da.type = DOMAIN_NOACCESS THEN FSR_DOMAIN_SEC
               ELSE IF ap_denied(da.type, ap, uaccess)
                    THEN FSR_PERM_SEC
               ELSE 0
        f == section_frame(v, gva, l1_entry)
    IN  IF f.err < 0 THEN Result(f.err, gfn, mi2, FALSE)
        ELSE Result(ret, f.gfn, mi2, FALSE)

\* kvm_guest_ttbr(&vcpu->arch, gva) | l1_index: address of the L1 descriptor
L1Addr(v, gva) == v.ttbr + Bits(gva, 20, 12) * 4

\* gva_to_gfn: the result and the guest physical addresses read, in order
gva_to_gfn(v, slots, mem, gva, uaccess, gfn, mi) ==
    IF ~v.mmu_enabled
    THEN [reads |-> <<>>, res |-> gva_to_gfn_mmu_off(gva, mi)]
    ELSE
      LET rd == get_guest_pgtable_entry(mem, L1Addr(v, gva))
          l1_entry == rd.entry
          l1_type == Bits(l1_entry, 0, 2)
      IN  IF rd.err < 0
          THEN [reads |-> <<L1Addr(v, gva)>>, res |-> Result(rd.err, gfn, mi, FALSE)]
          ELSE CASE l1_type = L1_TYPE_FAULT ->
                      [reads |-> <<L1Addr(v, gva)>>,
                       res |-> gva_to_gfn_l1_fault(slots, gfn, mi)]
                 [] l1_type = L1_TYPE_COARSE ->
                      LET c == gva_to_gfn_coarse(v, slots, mem, gva, uaccess,
                                                 l1_entry, gfn, mi)
                      IN  [reads |-> <<L1Addr(v, gva)>> \o c.read, res |-> c.res]
                 [] l1_type = L1_TYPE_SECTION ->
                      [reads |-> <<L1Addr(v, gva)>>,
                       res |-> gva_to_gfn_section(v, gva, uaccess, l1_entry, gfn, mi)]
                 [] OTHER ->                          \* default: BUG()
                      [reads |-> <<L1Addr(v, gva)>>, res |-> Result(0, gfn, mi, TRUE)]

(***************************************************************************)
(* The walker as a state machine: one call of gva_to_gfn per behaviour.    *)
(***************************************************************************)
NoMapInfo == [domain_number |-> Unset, ap |-> Unset, apx |-> Unset, xn |-> Unset,
              cache_bits |-> Unset]

WalkIdle == [pc |-> "idle", ret |-> 0, gfn |-> NoGfn, map_info |-> NoMapInfo,
             reads |-> <<>>]

\* The VCPU exit handler calls gva_to_gfn(vcpu, gva, &gfn, uaccess, &map_info).
Translate ==
    /\ walk.pc = "idle"
    /\ LET r == gva_to_gfn(vcpu, memslots, gmem, req.gva, req.uaccess,
                           walk.gfn, walk.map_info)
       IN  walk' = [pc |-> IF r.res.bug THEN "bug" ELSE "done",
                    ret |-> r.res.ret, gfn |-> r.res.gfn,
                    map_info |-> r.res.mi, reads |-> r.reads]
    /\ UNCHANGED <<vcpu, memslots, gmem, req, svars, excp, codec, smp, ovars>>

(***************************************************************************)
(* gva_to_hva.  A host virtual address is carried as the pair of whether   *)
(* it lies at or above PAGE_OFFSET and its offset from there (or from 0).  *)
(***************************************************************************)
bad_hva == [kernel |-> TRUE, off |-> 0]        \* PAGE_OFFSET
kvm_is_error_hva(h) == h = bad_hva

\* userspace_addr of memory slot i
SlotUserAddr(i) == i * (2^28)

\* gfn_to_hva(kvm, gfn): the address of the frame in its slot's user memory
gfn_to_hva(slots, gfn) ==
    IF ~kvm_is_visible_gfn(slots, gfn) THEN bad_hva
    ELSE LET i == CHOOSE j \in 1..NumSlots :
                      /\ slots[j].base_gfn <= gfn
                      /\ gfn < slots[j].base_gfn + slots[j].npages
         IN  [kernel |-> FALSE,
              off |-> SlotUserAddr(i) + (gfn - slots[i].base_gfn) * (2^PAGE_SHIFT)]

\* Result: val, with the walk's return value and whether it reached BUG().
gva_to_hva(v, slots, mem, gva, uaccess) ==
    LET r == gva_to_gfn(v, slots, mem, gva, uaccess, NoGfn,
                        [domain_number |-> Unset, ap |-> Unset, apx |-> Unset,
                         xn |-> Unset, cache_bits |-> Unset]).res
        h == gfn_to_hva(slots, r.gfn)
    IN  [bug |-> r.bug, ret |-> r.ret,
         val |-> IF r.bug \/ r.ret < 0 \/ ~kvm_is_visible_gfn(slots, r.gfn) THEN bad_hva
                 ELSE IF kvm_is_error_hva(h) THEN h
                 ELSE [h EXCEPT !.off = @ + Field(gva, 0, PAGE_SHIFT)]]

HvaIdle == [pc |-> "idle", ret |-> 0, val |-> bad_hva]

\* gva_to_hva(vcpu, gva, uaccess)
GvaToHva ==
    /\ hva.pc = "idle"
    /\ LET r == gva_to_hva(vcpu, memslots, gmem, req.gva, req.uaccess)
       IN  hva' = [pc |-> IF r.bug THEN "bug" ELSE "done", ret |-> r.ret, val |-> r.val]
    /\ UNCHANGED <<vcpu, wvars, svars, excp, codec, smp, scan, vdev, virq>>

(***************************************************************************)
(* Shadow page tables.  The addresses handled here are page aligned and    *)
(* are carried as page numbers (gva >> 12): l1_index is vpn >> 8 and the   *)
(* L2 index is vpn & 0xff.  Tables are kept for the indices in use; every  *)
(* other entry stays zero.  Pointers to L2 tables are physical addresses.  *)
(***************************************************************************)
NumRoots == 2      \* kvm_shadow_pgtable structs that can exist at once
NumFrames == 2     \* host page frames available for L2 tables
MaxOps == 3        \* calls into the shadow-table manager per behaviour

ENOMEM == 12
KVM_SPECIAL_DOMAIN == 15
KVM_MEM_EXEC == 0
SHARED_PAGE_VPN == 1048561             \* SHARED_PAGE_BASE >> 12 (0xffff1000)
TASK_SIZE_VPN == 782336                \* TASK_SIZE >> 12 (0xbf000000)
EXCEPTION_VECTOR_HIGH_VPN == 1048560   \* 0xffff0000 >> 12
EXCEPTION_VECTOR_LOW_VPN == 0                \* 0x00000000 >> 12

RootIds == 1..NumRoots
FrameIds == 16..(16 + NumFrames - 1)
PfnSet == {64, 65}
GuestVectorsPfn == 66     \* page_to_pfn(virt_to_page(vcpu->arch.guest_vectors))
SharedPagePfn == 67       \* page_to_pfn(virt_to_page(vcpu->arch.shared_page_alloc))
HostPages == PfnSet \cup {GuestVectorsPfn, SharedPagePfn}
ShadowVpns == {0, 1, 256, EXCEPTION_VECTOR_HIGH_VPN, SHARED_PAGE_VPN}
L1Used == {vpn \div 256 : vpn \in ShadowVpns}
L2Used == {vpn % 256 : vpn \in ShadowVpns}

RECURSIVE SortedSeq(_)
SortedSeq(S) == IF S = {} THEN <<>>
                ELSE LET m == CHOOSE x \in S : \A y \in S : x <= y
                     IN  <<m>> \o SortedSeq(S \ {m})

ZeroTable == [i \in L2Used |-> 0]
ZeroPage == [s \in 0..3 |-> ZeroTable]
ZeroPgd == [i \in L1Used |-> 0]
NoRoot == [state |-> "free", pgd |-> ZeroPgd, guest_ttbr |-> 0]
NoPage == [free |-> TRUE, private |-> 0, tab |-> ZeroPage]

\* the arguments of a call; fields a call does not take stay as in NoCall
NoCall == [root |-> 0, vpn |-> 0, pfn |-> 0, domain |-> 0, priv_ap |-> KVM_AP_NONE,
           user_ap |-> KVM_AP_NONE, exec |-> 0, high |-> FALSE]

\* vcpu->arch after VCPU creation: no shadow tables, no partly used L2 page.
ShadowIdle ==
    /\ roots = [r \in RootIds |-> NoRoot]
    /\ shadow_list = <<>>
    /\ frames = [f \in FrameIds |-> NoPage]
    /\ l2_unused_pt = 0
    /\ host_vectors_high = FALSE
    /\ pages = [p \in HostPages |-> [pinned |-> 0, clean |-> 0, dirty |-> 0]]
    /\ sh = [op |-> "none", call |-> NoCall, ret |-> 0, halted |-> FALSE, ops |-> 0]

\* dacr >> (domain * 2), with the register as its sixteen fields
RECURSIVE DacrShr(_, _)
DacrShr(dacr, d) == IF d > 15 THEN 0 ELSE dacr[d] + 4 * DacrShr(dacr, d + 1)

mapping_is_guest_writable(v, domain, pte) ==
    LET dacr == [d \in 0..15 |-> IF d = KVM_SPECIAL_DOMAIN THEN DOMAIN_CLIENT
                                 ELSE v.c3_DACR[d]]
        sw == DacrShr(dacr, domain)
    IN  CASE sw = DOMAIN_MANAGER -> TRUE
          [] sw = DOMAIN_CLIENT -> kvm_decode_ap(Bits(pte, 4, 2), 0) = KVM_AP_RDWRITE
          [] OTHER -> FALSE

\* Result: the guest pages' release counts, and whether BUG() was reached.
release_l2_shadow_entry(v, pg, domain, pte) ==
    CASE Bits(pte, 0, 2) = L2_TYPE_FAULT -> [pages |-> pg, bug |-> FALSE]
      [] Bits(pte, 0, 2) \in {L2_XP_TYPE_EXT_SMALL, L2_XP_TYPE_EXT_SMALL + 1} ->
            LET pfn == Bits(pte, 12, 20)
            IN  [pages |->
                    IF pfn \notin DOMAIN pg THEN pg
                    ELSE IF mapping_is_guest_writable(v, domain, pte)
                         THEN [pg EXCEPT ![pfn].dirty = @ + 1]
                         ELSE [pg EXCEPT ![pfn].clean = @ + 1],
                 bug |-> FALSE]
      [] OTHER -> [pages |-> pg, bug |-> TRUE]

RECURSIVE free_l2_shadow_loop(_, _, _, _, _)
free_l2_shadow_loop(v, pg, domain, tab, idx) ==
    IF idx = <<>> THEN [pages |-> pg, bug |-> FALSE]
    ELSE LET r == release_l2_shadow_entry(v, pg, domain, tab[Head(idx)])
         IN  IF r.bug THEN r
             ELSE free_l2_shadow_loop(v, r.pages, domain, tab, Tail(idx))

\* Result: frames, pages, bug.
free_l2_shadow(v, fr, pg, l1_pte) ==
    LET f == l1_pte \div (2^PAGE_SHIFT)
        slot == Bits(l1_pte, 10, 2)
        domain == Bits(l1_pte, 5, 4)
        r == free_l2_shadow_loop(v, pg, domain, fr[f].tab[slot], SortedSeq(L2Used))
    IN  IF r.bug \/ fr[f].private = 0
        THEN [frames |-> fr, pages |-> r.pages, bug |-> TRUE]
        ELSE [frames |-> [fr EXCEPT ![f].private = @ - 1,
                                    ![f].free = (fr[f].free \/ fr[f].private = 1)],
              pages |-> r.pages, bug |-> FALSE]

\* Result: pgd, frames, pages, bug.
RECURSIVE free_l1_shadow_children_loop(_, _, _, _, _)
free_l1_shadow_children_loop(v, pgd, fr, pg, idx) ==
    IF idx = <<>> THEN [pgd |-> pgd, frames |-> fr, pages |-> pg, bug |-> FALSE]
    ELSE LET i == Head(idx)
             l1_pte == pgd[i]
         IN  IF Bits(l1_pte, 0, 2) = L1_TYPE_FAULT
             THEN free_l1_shadow_children_loop(v, pgd, fr, pg, Tail(idx))
             ELSE IF Bits(l1_pte, 0, 2) # L1_TYPE_COARSE
             THEN [pgd |-> pgd, frames |-> fr, pages |-> pg, bug |-> TRUE]
             ELSE LET r == free_l2_shadow(v, fr, pg, l1_pte)
                  IN  IF r.bug
                      THEN [pgd |-> pgd, frames |-> r.frames, pages |-> r.pages,
                            bug |-> TRUE]
                      ELSE free_l1_shadow_children_loop(
                               v, [pgd EXCEPT ![i] = 0], r.frames, r.pages, Tail(idx))

__free_l1_shadow_children(v, pgd, fr, pg) ==
    free_l1_shadow_children_loop(v, pgd, fr, pg, SortedSeq(L1Used))

\* The outcomes of alloc_l2_shadow: err, l2_base, frames, unused.  The page
\* allocator may hand out any free page, or none.
alloc_l2_shadow_next(l2_base) ==
    IF (l2_base + 1024) % (2^PAGE_SHIFT) = 0 THEN 0 ELSE l2_base + 1024

\* alloc_l2_shadow counting the sub-table before the page is known to exist
alloc_l2_shadow_counted(fr, unused) == {[err |-> IF unused = 0 THEN ENOMEM ELSE 0, l2_base |-> unused, frames |-> [f \in DOMAIN fr |-> [fr[f] EXCEPT !.private = @ + 1]], unused |-> unused]}

alloc_l2_shadow(fr, unused) ==
    IF unused = 0
    THEN {[err |-> ENOMEM, l2_base |-> 0, frames |-> fr, unused |-> unused]}
         \cup {[err |-> 0, l2_base |-> f * (2^PAGE_SHIFT),
                frames |-> [fr EXCEPT ![f] = [free |-> FALSE, private |-> 1,
                                              tab |-> ZeroPage]],
                unused |-> alloc_l2_shadow_next(f * (2^PAGE_SHIFT))] :
                   f \in {g \in DOMAIN fr : fr[g].free}}
    ELSE {[err |-> 0, l2_base |-> unused,
           frames |-> [fr EXCEPT ![unused \div (2^PAGE_SHIFT)].private = @ + 1],
           unused |-> alloc_l2_shadow_next(unused)]}

VCPU_DOMAIN_VAL(v, domain) == v.c3_DACR[domain]

\* dom_to_ap leaving apx as passed for a Manager domain
dom_to_ap_apx(v, domain, ap, apx) == IF VCPU_DOMAIN_VAL(v, domain) = DOMAIN_NOACCESS THEN [ap |-> 0, apx |-> 0] ELSE IF VCPU_DOMAIN_VAL(v, domain) = DOMAIN_MANAGER THEN [ap |-> 255, apx |-> apx] ELSE [ap |-> ap, apx |-> apx]

\* Result: ap, apx.
dom_to_ap(v, domain, ap, apx) ==
    IF VCPU_DOMAIN_VAL(v, domain) = DOMAIN_NOACCESS THEN [ap |-> 0, apx |-> 0]
    ELSE IF VCPU_DOMAIN_VAL(v, domain) = DOMAIN_MANAGER THEN [ap |-> 255, apx |-> 0]
    ELSE [ap |-> ap, apx |-> apx]

\* the vector base taken as high whatever the flag
VCPU_HOST_EXCP_BASE_high(hvh) == EXCEPTION_VECTOR_HIGH_VPN

VCPU_HOST_EXCP_BASE(hvh) ==
    IF hvh THEN EXCEPTION_VECTOR_HIGH_VPN ELSE EXCEPTION_VECTOR_LOW_VPN

\* The L2 descriptor __map_gva_to_pfn writes (VMSAv6).
shadow_l2_pte(pfn, ap, apx, xn, nG) ==
    pfn * (2^PAGE_SHIFT) + L2_XP_TYPE_EXT_SMALL + (xn % 2) + 12
        + (ap % 4) * 16 + (apx % 2) * 512 + nG * 2048

shadow_l1_pte(l2_base, domain) ==
    Field(l2_base, 10, 21) + L1_TYPE_COARSE + (domain % 16) * 32

pfn_valid(pfn) == pfn \in FrameIds \cup HostPages

\* get_l2_base taking the 1 KiB table after the one the entry names
get_l2_base_next(l1_entry) ==
    IF ~pfn_valid(l1_entry \div (2^PAGE_SHIFT)) THEN [err |-> EFAULT, l2_base |-> 0]
    ELSE [err |-> 0,
          l2_base |-> Field(l1_entry, 12, 19) + ((Bits(l1_entry, 10, 2) + 1) % 4) * 1024]

\* Result: err, l2_base.
get_l2_base(l1_entry) ==
    IF ~pfn_valid(l1_entry \div (2^PAGE_SHIFT)) THEN [err |-> EFAULT, l2_base |-> 0]
    ELSE [err |-> 0, l2_base |-> Field(l1_entry, 12, 19) + Field(l1_entry, 10, 2)]

\* __map_gva_to_pfn leaving the domain of an entry that is already Coarse
__map_gva_to_pfn_keep(v, hvh, pgd, fr, unused, vpn, pfn, domain, ap, apx, xn) ==
    LET l1_index == vpn \div 256
        nG == IF vpn = SHARED_PAGE_VPN \/ vpn > TASK_SIZE_VPN THEN 0 ELSE 1
        special == domain # KVM_SPECIAL_DOMAIN
                       /\ (l1_index = SHARED_PAGE_VPN \div 256
                             \/ l1_index = VCPU_HOST_EXCP_BASE(hvh) \div 256)
        da == IF special THEN dom_to_ap(v, domain, ap, apx)
              ELSE [ap |-> ap, apx |-> apx]
        dom == IF special THEN KVM_SPECIAL_DOMAIN ELSE domain
        word == shadow_l2_pte(pfn, da.ap, da.apx, xn, nG)
        write(f2, l2_base) ==
            [f2 EXCEPT ![l2_base \div (2^PAGE_SHIFT)].tab[Bits(l2_base, 10, 2)][vpn % 256]
                           = word]
    IN  CASE Bits(pgd[l1_index], 0, 2) = L1_TYPE_FAULT ->
               {IF a.err # 0
                THEN [ret |-> -a.err, pgd |-> pgd, frames |-> a.frames,
                      unused |-> a.unused]
                ELSE [ret |-> 0,
                      pgd |-> [pgd EXCEPT ![l1_index] = shadow_l1_pte(a.l2_base, dom)],
                      frames |-> write(a.frames, a.l2_base),
                      unused |-> a.unused] : a \in alloc_l2_shadow(fr, unused)}
          [] Bits(pgd[l1_index], 0, 2) = L1_TYPE_COARSE ->
               LET l1 == pgd[l1_index]
                   b == get_l2_base(l1)
                   pgd2 == [pgd EXCEPT ![l1_index] = l1]
               IN  IF b.err # 0
                   THEN {[ret |-> -b.err, pgd |-> pgd2, frames |-> fr,
                          unused |-> unused]}
                   ELSE {[ret |-> 0, pgd |-> pgd2, frames |-> write(fr, b.l2_base),
                          unused |-> unused]}
          [] OTHER ->
               {[ret |-> -EFAULT, pgd |-> pgd, frames |-> fr, unused |-> unused]}

\* The outcomes of __map_gva_to_pfn: ret, pgd, frames, unused.
__map_gva_to_pfn(v, hvh, pgd, fr, unused, vpn, pfn, domain, ap, apx, xn) ==
    LET l1_index == vpn \div 256
        nG == IF vpn = SHARED_PAGE_VPN \/ vpn > TASK_SIZE_VPN THEN 0 ELSE 1
        special == domain # KVM_SPECIAL_DOMAIN
                       /\ (l1_index = SHARED_PAGE_VPN \div 256
                             \/ l1_index = VCPU_HOST_EXCP_BASE(hvh) \div 256)
        da == IF special THEN dom_to_ap(v, domain, ap, apx)
              ELSE [ap |-> ap, apx |-> apx]
        dom == IF special THEN KVM_SPECIAL_DOMAIN ELSE domain
        word == shadow_l2_pte(pfn, da.ap, da.apx, xn, nG)
        write(f2, l2_base) ==
            [f2 EXCEPT ![l2_base \div (2^PAGE_SHIFT)].tab[Bits(l2_base, 10, 2)][vpn % 256]
                           = word]
    IN  CASE Bits(pgd[l1_index], 0, 2) = L1_TYPE_FAULT ->
               {IF a.err # 0
                THEN [ret |-> -a.err, pgd |-> pgd, frames |-> a.frames,
                      unused |-> a.unused]
                ELSE [ret |-> 0,
                      pgd |-> [pgd EXCEPT ![l1_index] = shadow_l1_pte(a.l2_base, dom)],
                      frames |-> write(a.frames, a.l2_base),
                      unused |-> a.unused] : a \in alloc_l2_shadow(fr, unused)}
          [] Bits(pgd[l1_index], 0, 2) = L1_TYPE_COARSE ->
               LET l1 == Field(pgd[l1_index], 9, 22) + Bits(pgd[l1_index], 0, 5)
                             + (dom % 16) * 32
                   b == get_l2_base(l1)
                   pgd2 == [pgd EXCEPT ![l1_index] = l1]
               IN  IF b.err # 0
                   THEN {[ret |-> -b.err, pgd |-> pgd2, frames |-> fr,
                          unused |-> unused]}
                   ELSE {[ret |-> 0, pgd |-> pgd2, frames |-> write(fr, b.l2_base),
                          unused |-> unused]}
          [] OTHER ->
               {[ret |-> -EFAULT, pgd |-> pgd, frames |-> fr, unused |-> unused]}

\* Result: ap (one subpage), apx.
calc_aps(priv_ap, user_ap) ==
    [ap |-> CASE priv_ap = KVM_AP_NONE -> 0
              [] user_ap = KVM_AP_NONE -> 1
              [] user_ap = KVM_AP_RDONLY -> 2
              [] OTHER -> 3,
     apx |-> IF priv_ap = KVM_AP_RDONLY THEN 1 ELSE 0]

\* map_gva_to_pfn without its validity check
map_gva_to_pfn_unchecked(v, hvh, pgd, fr, unused, vpn, pfn, domain, priv_ap, user_ap, exec) ==
    LET c == calc_aps(priv_ap, user_ap)
    IN  __map_gva_to_pfn(v, hvh, pgd, fr, unused, vpn, pfn, domain,
                         Rep4(c.ap), c.apx, exec)

\* The outcomes of map_gva_to_pfn: ret, pgd, frames, unused.
map_gva_to_pfn(v, hvh, pgd, fr, unused, vpn, pfn, domain, priv_ap, user_ap, exec) ==
    IF \/ priv_ap = KVM_AP_NONE /\ user_ap # KVM_AP_NONE
       \/ v.mmu_xp /\ priv_ap = KVM_AP_RDONLY /\ user_ap = KVM_AP_RDWRITE
       \/ ~v.mmu_xp /\ priv_ap = KVM_AP_RDONLY
    THEN {[ret |-> -EINVAL, pgd |-> pgd, frames |-> fr, unused |-> unused]}
    ELSE LET c == calc_aps(priv_ap, user_ap)
         IN  __map_gva_to_pfn(v, hvh, pgd, fr, unused, vpn, pfn, domain,
                              Rep4(c.ap), c.apx, exec)

\* Result: ret, pgd, frames, pages, bug.
unmap_gva_section(v, pgd, fr, pg, vpn) ==
    LET i == vpn \div 256
    IN  CASE Bits(pgd[i], 0, 2) = L1_TYPE_FAULT ->
               [ret |-> 0, pgd |-> pgd, frames |-> fr, pages |-> pg, bug |-> FALSE]
          [] Bits(pgd[i], 0, 2) = L1_TYPE_COARSE ->
               LET r == free_l2_shadow(v, fr, pg, pgd[i])
               IN  [ret |-> 0, pgd |-> IF r.bug THEN pgd ELSE [pgd EXCEPT ![i] = 0],
                    frames |-> r.frames, pages |-> r.pages, bug |-> r.bug]
          [] OTHER ->
               [ret |-> -EFAULT, pgd |-> pgd, frames |-> fr, pages |-> pg,
                bug |-> FALSE]

RECURSIVE list_del(_, _)
list_del(list, r) ==
    IF list = <<>> THEN <<>>
    ELSE IF Head(list) = r THEN Tail(list)
    ELSE <<Head(list)>> \o list_del(Tail(list), r)

(***************************************************************************)
(* The shadow-table manager as a state machine: one action per entry point.*)
(***************************************************************************)
\* calls are taken while no BUG() was hit and fewer than n were made
Ready(n) == ~sh.halted /\ sh.ops < n
ShadowReady == Ready(MaxOps)
ShadowCall(op, call, ret, bug) ==
    sh' = [op |-> op, call |-> call, ret |-> ret, halted |-> bug, ops |-> sh.ops + 1]
LiveRoots == {r \in RootIds : roots[r].state = "live"}

\* kvm_alloc_l1_shadow(vcpu, guest_ttbr)
AllocRootIn(n) ==
    /\ Ready(n)
    /\ \E g \in {16384} :
          \/ /\ ShadowCall("alloc_root", NoCall, -ENOMEM, FALSE)        \* kmalloc fails
             /\ UNCHANGED <<roots, shadow_list>>
          \/ \E r \in {x \in RootIds : roots[x].state = "free"} :
                \/ /\ roots' = [roots EXCEPT ![r].state = "leaked"]  \* no pages
                   /\ ShadowCall("alloc_root", NoCall, -ENOMEM, FALSE)
                   /\ UNCHANGED shadow_list
                \/ /\ roots' = [roots EXCEPT ![r] = [state |-> "live", pgd |-> ZeroPgd,
                                                     guest_ttbr |-> g]]
                   /\ shadow_list' = Append(shadow_list, r)
                   /\ ShadowCall("alloc_root", [NoCall EXCEPT !.root = r], 0, FALSE)
    /\ UNCHANGED <<vcpu, wvars, excp, codec, smp, ovars, frames, l2_unused_pt, host_vectors_high, pages>>

InstallArgs ==
    {[domain |-> 0, priv_ap |-> KVM_AP_RDWRITE, user_ap |-> KVM_AP_RDWRITE, exec |-> 0],
     [domain |-> 1, priv_ap |-> KVM_AP_RDWRITE, user_ap |-> KVM_AP_NONE, exec |-> 1],
     [domain |-> KVM_SPECIAL_DOMAIN, priv_ap |-> KVM_AP_RDWRITE,
      user_ap |-> KVM_AP_NONE, exec |-> 1],
     [domain |-> 0, priv_ap |-> KVM_AP_RDONLY, user_ap |-> KVM_AP_RDONLY, exec |-> 0],
     [domain |-> 0, priv_ap |-> KVM_AP_RDONLY, user_ap |-> KVM_AP_RDWRITE, exec |-> 0],
     [domain |-> 0, priv_ap |-> KVM_AP_NONE, user_ap |-> KVM_AP_RDWRITE, exec |-> 0]}

\* The fault handler pins the guest page and calls map_gva_to_pfn(vcpu, pgd, ...);
\* the reference passes to the shadow table when the call succeeds.
InstallIn(n, Vpns, Pfns, Args) ==
    /\ Ready(n)
    /\ \E r \in LiveRoots, vpn \in Vpns, pfn \in Pfns, a \in Args :
          \E o \in map_gva_to_pfn(vcpu, host_vectors_high, roots[r].pgd, frames,
                                  l2_unused_pt, vpn, pfn, a.domain, a.priv_ap,
                                  a.user_ap, a.exec) :
             /\ roots' = [roots EXCEPT ![r].pgd = o.pgd]
             /\ frames' = o.frames
             /\ l2_unused_pt' = o.unused
             /\ pages' = [pages EXCEPT ![pfn].pinned = IF o.ret = 0 THEN @ + 1 ELSE @]
             /\ ShadowCall("install",
                           [root |-> r, vpn |-> vpn, pfn |-> pfn, domain |-> a.domain,
                            priv_ap |-> a.priv_ap, user_ap |-> a.user_ap,
                            exec |-> a.exec, high |-> FALSE], o.ret, FALSE)
    /\ UNCHANGED <<vcpu, wvars, excp, codec, smp, ovars, shadow_list, host_vectors_high>>

\* unmap_gva_section(vcpu, pgd, gva)
UnmapSectionIn(n, Vpns) ==
    /\ Ready(n)
    /\ \E r \in LiveRoots, vpn \in Vpns :
          LET o == unmap_gva_section(vcpu, roots[r].pgd, frames, pages, vpn)
          IN  /\ roots' = [roots EXCEPT ![r].pgd = o.pgd]
              /\ frames' = o.frames
              /\ pages' = o.pages
              /\ ShadowCall("unmap_section", [NoCall EXCEPT !.root = r, !.vpn = vpn],
                            o.ret, o.bug)
    /\ UNCHANGED <<vcpu, wvars, excp, codec, smp, ovars, shadow_list, l2_unused_pt, host_vectors_high>>

\* kvm_free_l1_shadow(vcpu, shadow)
FreeRootIn(n) ==
    /\ Ready(n)
    /\ \E r \in LiveRoots :
          LET o == __free_l1_shadow_children(vcpu, roots[r].pgd, frames, pages)
          IN  /\ frames' = o.frames
              /\ pages' = o.pages
              /\ IF o.bug
                 THEN /\ roots' = [roots EXCEPT ![r].pgd = o.pgd]
                      /\ UNCHANGED <<shadow_list, l2_unused_pt>>
                 ELSE /\ roots' = [roots EXCEPT ![r] = NoRoot]
                      /\ shadow_list' = list_del(shadow_list, r)
                      /\ l2_unused_pt' = 0
              /\ ShadowCall("free_root", [NoCall EXCEPT !.root = r], 0, o.bug)
    /\ UNCHANGED <<vcpu, wvars, excp, codec, smp, ovars, host_vectors_high>>

AllocRoot == AllocRootIn(MaxOps)
Install == InstallIn(MaxOps, ShadowVpns, PfnSet, InstallArgs)
UnmapSection == UnmapSectionIn(MaxOps, ShadowVpns)
FreeRoot == FreeRootIn(MaxOps)

\* The same calls, two more of them, on two 1 MiB regions with one kind of mapping.
DeepOps == MaxOps + 2
DeepVpns == {0, 256}
DeepArgs == {[domain |-> 0, priv_ap |-> KVM_AP_RDWRITE, user_ap |-> KVM_AP_RDWRITE,
              exec |-> 0]}
AllocRootDeep == AllocRootIn(DeepOps)
InstallDeep == InstallIn(DeepOps, DeepVpns, {64}, DeepArgs)
UnmapSectionDeep == UnmapSectionIn(DeepOps, DeepVpns)
FreeRootDeep == FreeRootIn(DeepOps)

\* A freed page belongs to the host again, which may clear and reuse it.
HostReusesFrame ==
    /\ ~sh.halted
    /\ \E f \in FrameIds :
          /\ frames[f].free
          /\ frames[f] # NoPage
          /\ frames' = [frames EXCEPT ![f] = NoPage]
    /\ UNCHANGED <<vcpu, wvars, excp, codec, smp, ovars, roots, shadow_list, l2_unused_pt, host_vectors_high,
                   pages, sh>>

\* unmap_gva giving up the sub-table when it clears an entry
unmap_gva_put(pgd, fr, vpn) ==
    LET i == vpn \div 256
    IN  IF Bits(pgd[i], 0, 2) # L1_TYPE_COARSE THEN [ret |-> 0, frames |-> fr]
        ELSE [ret |-> 0,
              frames |-> [fr EXCEPT ![pgd[i] \div (2^PAGE_SHIFT)].private = @ - 1,
                                    ![pgd[i] \div (2^PAGE_SHIFT)]
                                        .tab[Bits(pgd[i], 10, 2)][vpn % 256] = 0]]

\* Result: ret, frames.
unmap_gva(pgd, fr, vpn) ==
    LET i == vpn \div 256
    IN  CASE Bits(pgd[i], 0, 2) = L1_TYPE_FAULT -> [ret |-> 0, frames |-> fr]
          [] Bits(pgd[i], 0, 2) = L1_TYPE_COARSE ->
               LET b == get_l2_base(pgd[i])
               IN  IF b.err # 0 THEN [ret |-> -b.err, frames |-> fr]
                   ELSE [ret |-> 0,
                         frames |-> [fr EXCEPT ![b.l2_base \div (2^PAGE_SHIFT)]
                                         .tab[Bits(b.l2_base, 10, 2)][vpn % 256] = 0]]
          [] OTHER -> [ret |-> -EFAULT, frames |-> fr]

\* unmap_gva(pgd, gva)
UnmapPage ==
    /\ ShadowReady
    /\ \E r \in LiveRoots, vpn \in ShadowVpns :
          LET o == unmap_gva(roots[r].pgd, frames, vpn)
          IN  /\ frames' = o.frames
              /\ ShadowCall("unmap_page", [NoCall EXCEPT !.root = r, !.vpn = vpn],
                            o.ret, FALSE)
    /\ UNCHANGED <<vcpu, wvars, excp, codec, smp, ovars, roots, shadow_list, l2_unused_pt, host_vectors_high,
                   pages>>

\* kvm_switch_host_vectors mapping the vectors again whatever base is active
SwitchVectors_remap ==
    /\ ShadowReady
    /\ \E high \in BOOLEAN, r \in LiveRoots :
          \E o \in map_gva_to_pfn(vcpu, high, roots[r].pgd, frames, l2_unused_pt,
                                  IF high THEN EXCEPTION_VECTOR_HIGH_VPN
                                  ELSE EXCEPTION_VECTOR_LOW_VPN,
                                  GuestVectorsPfn, KVM_SPECIAL_DOMAIN,
                                  KVM_AP_RDWRITE, KVM_AP_NONE, KVM_MEM_EXEC) :
             /\ roots' = [roots EXCEPT ![r].pgd = o.pgd]
             /\ frames' = o.frames
             /\ l2_unused_pt' = o.unused
             /\ host_vectors_high' = high
             /\ ShadowCall("switch_vectors", [NoCall EXCEPT !.high = high], o.ret, FALSE)
    /\ UNCHANGED <<vcpu, wvars, excp, codec, smp, ovars, shadow_list, pages>>

\* kvm_switch_host_vectors(vcpu, high), r being vcpu->arch.shadow_pgtable
SwitchVectorsIn(n) ==
    /\ Ready(n)
    /\ \E high \in BOOLEAN :
          IF high = host_vectors_high
          THEN /\ ShadowCall("switch_vectors", [NoCall EXCEPT !.high = high], 0, FALSE)
               /\ UNCHANGED <<roots, frames, l2_unused_pt, host_vectors_high, pages>>
          ELSE \E r \in LiveRoots :
                 LET u == IF high
                          THEN unmap_gva_section(vcpu, roots[r].pgd, frames, pages,
                                                 EXCEPTION_VECTOR_LOW_VPN)
                          ELSE LET x == unmap_gva(roots[r].pgd, frames,
                                                  EXCEPTION_VECTOR_HIGH_VPN)
                               IN  [ret |-> x.ret, pgd |-> roots[r].pgd,
                                    frames |-> x.frames, pages |-> pages,
                                    bug |-> FALSE]
                 IN  IF u.bug \/ u.ret # 0
                     THEN /\ roots' = [roots EXCEPT ![r].pgd = u.pgd]
                          /\ frames' = u.frames
                          /\ pages' = u.pages
                          /\ ShadowCall("switch_vectors", [NoCall EXCEPT !.root = r, !.high = high],
                                       u.ret, u.bug)
                          /\ UNCHANGED <<l2_unused_pt, host_vectors_high>>
                     ELSE \E o \in map_gva_to_pfn(
                                       vcpu, high, u.pgd, u.frames, l2_unused_pt,
                                       IF high THEN EXCEPTION_VECTOR_HIGH_VPN
                                       ELSE EXCEPTION_VECTOR_LOW_VPN,
                                       GuestVectorsPfn, KVM_SPECIAL_DOMAIN,
                                       KVM_AP_RDWRITE, KVM_AP_NONE, KVM_MEM_EXEC) :
                            /\ roots' = [roots EXCEPT ![r].pgd = o.pgd]
                            /\ frames' = o.frames
                            /\ l2_unused_pt' = o.unused
                            /\ pages' = u.pages
                            /\ host_vectors_high' = high
                            /\ ShadowCall("switch_vectors",
                                          [NoCall EXCEPT !.root = r, !.high = high],
                                          o.ret, FALSE)
    /\ UNCHANGED <<vcpu, wvars, excp, codec, smp, ovars, shadow_list>>

SwitchVectors == SwitchVectorsIn(MaxOps)

\* free_l1_shadow_children(vcpu, pgd) for a pgd that is not NULL
free_l1_shadow_children(v, pgd, fr, pg) ==
    LET o == __free_l1_shadow_children(v, pgd, fr, pg)
    IN  [pgd |-> o.pgd, frames |-> o.frames, pages |-> o.pages, bug |-> o.bug,
         unused |-> 0]

\* kvm_init_l1_shadow(vcpu, pgd), pgd being the table of live root r
InitRootIn(n) ==
    /\ Ready(n)
    /\ \E r \in LiveRoots :
          LET call == [NoCall EXCEPT !.root = r, !.high = host_vectors_high]
              c == free_l1_shadow_children(vcpu, roots[r].pgd, frames, pages)
              pg1 == [c.pages EXCEPT ![SharedPagePfn].pinned = @ + 1]
              pg2 == [pg1 EXCEPT ![GuestVectorsPfn].pinned = @ + 1]
          IN  IF c.bug
              THEN /\ roots' = [roots EXCEPT ![r].pgd = c.pgd]
                   /\ frames' = c.frames
                   /\ pages' = c.pages
                   /\ ShadowCall("init_root", call, 0, TRUE)
                   /\ UNCHANGED l2_unused_pt
              ELSE \E a \in map_gva_to_pfn(vcpu, host_vectors_high, c.pgd, c.frames,
                                           c.unused, SHARED_PAGE_VPN, SharedPagePfn,
                                           KVM_SPECIAL_DOMAIN, KVM_AP_RDWRITE,
                                           KVM_AP_NONE, KVM_MEM_EXEC) :
                     IF a.ret < 0
                     THEN /\ roots' = [roots EXCEPT ![r].pgd = a.pgd]
                          /\ frames' = a.frames
                          /\ l2_unused_pt' = a.unused
                          /\ pages' = pg1
                          /\ ShadowCall("init_root", call, a.ret, FALSE)
                     ELSE \E b \in map_gva_to_pfn(
                                       vcpu, host_vectors_high, a.pgd, a.frames,
                                       a.unused, VCPU_HOST_EXCP_BASE(host_vectors_high),
                                       GuestVectorsPfn, KVM_SPECIAL_DOMAIN,
                                       KVM_AP_RDWRITE, KVM_AP_NONE, KVM_MEM_EXEC) :
                            /\ roots' = [roots EXCEPT ![r].pgd = b.pgd]
                            /\ frames' = b.frames
                            /\ l2_unused_pt' = b.unused
                            /\ pages' = pg2
                            /\ ShadowCall("init_root", call,
                                          IF b.ret < 0 THEN b.ret ELSE 0, FALSE)
    /\ UNCHANGED <<vcpu, wvars, excp, codec, smp, ovars, shadow_list, host_vectors_high>>

(***************************************************************************)
(* Fault injection.  exception_pending is the set of the exception bits    *)
(* that are set.                                                           *)
(***************************************************************************)
FSR_TYPE_MASK == 15
ARM_EXCEPTION_PREF_ABORT == 3
ARM_EXCEPTION_DATA_ABORT == 4
EXCEPTION_PREFETCH == "prefetch"
EXCEPTION_DATA == "data"

NoFault == [fault_addr |-> 0, source |-> 0, domain |-> 0]
ExcpIdle ==
    [guest_exception |-> 0, c5_IFSR |-> 0, c5_DFSR |-> 0, c6_FAR |-> 0,
     exception_pending |-> {}, pc |-> "idle", call |-> NoFault]

\* kvm_generate_mmu_fault(vcpu, fault_addr, source, domain), on the fields of
\* vcpu->arch it reads and writes
kvm_generate_mmu_fault(e, fault_addr, source, domain) ==
    IF e.guest_exception = ARM_EXCEPTION_PREF_ABORT
    THEN LET f0 == 0
             f1 == f0 + Bits(source, 0, 4)
             f2 == f1 + (domain % 16) * 16
         IN  [e EXCEPT !.c5_IFSR = f2,
                       !.exception_pending = @ \cup {EXCEPTION_PREFETCH}]
    ELSE LET f0 == 0
             f1 == f0 + Bits(source, 0, 4)
             f2 == f1 + (domain % 16) * 16
             f3 == source
         IN  [e EXCEPT !.c6_FAR = fault_addr,
                       !.c5_DFSR = f3,
                       !.exception_pending = @ \cup {EXCEPTION_DATA}]

\* The guest exits with an abort; the exit path records which.
GuestExit ==
    /\ \E x \in {ARM_EXCEPTION_PREF_ABORT, ARM_EXCEPTION_DATA_ABORT} :
          excp' = [excp EXCEPT !.guest_exception = x, !.pc = "exited"]
    /\ UNCHANGED <<vcpu, wvars, svars, codec, smp, ovars>>

FaultAddrs == {4096, 1048576 + 4}
FaultSources == {FSR_TRANS_SEC, FSR_PERM_PAGE, 2048 + FSR_DOMAIN_PAG}
FaultDomains == {0, 3}

GenerateFault ==
    /\ excp.pc = "exited"
    /\ \E fault_addr \in FaultAddrs, source \in FaultSources, domain \in FaultDomains :
          excp' = [kvm_generate_mmu_fault(excp, fault_addr, source, domain)
                      EXCEPT !.pc = "injected",
                             !.call = [fault_addr |-> fault_addr, source |-> source,
                                       domain |-> domain]]
    /\ UNCHANGED <<vcpu, wvars, svars, codec, smp, ovars>>

(***************************************************************************)
(* The L2 descriptor codec: the walker decodes a guest descriptor, the     *)
(* install path encodes the shadow descriptor.                             *)
(***************************************************************************)
NoTuple == [frame |-> Unset, ap |-> Unset, apx |-> Unset, xn |-> Unset,
            cache_bits |-> Unset]
CodecIdle == [pc |-> "idle", desc |-> 0, first |-> NoTuple, word |-> 0,
              second |-> NoTuple]

\* What trans_coarse_entry_xp makes of an extended small-page descriptor:
\* *gfn and the fields of map_info (Manager domain, so that no permission
\* check interferes; page 0 of the slot-less address 0).
decode_l2(v, slots, desc) ==
    LET r == trans_coarse_entry_xp(v, slots, 0, desc, NoGfn, DOMAIN_MANAGER, 0,
                                   NoMapInfo)
    IN  [frame |-> r.gfn, ap |-> r.mi.ap, apx |-> r.mi.apx, xn |-> r.mi.xn,
         cache_bits |-> r.mi.cache_bits]

\* The descriptor __map_gva_to_pfn writes for a decoded tuple.
encode_l2(t, nG) == shadow_l2_pte(t.frame, t.ap, t.apx, t.xn, nG)

Decode ==
    /\ codec.pc = "word"
    /\ codec' = [codec EXCEPT !.pc = "decoded",
                              !.first = decode_l2(vcpu, memslots, codec.desc)]
    /\ UNCHANGED <<vcpu, wvars, svars, excp, smp, ovars>>

Encode ==
    /\ codec.pc = "decoded"
    /\ \E nG \in {0, 1} :
          codec' = [codec EXCEPT !.pc = "encoded", !.word = encode_l2(codec.first, nG)]
    /\ UNCHANGED <<vcpu, wvars, svars, excp, smp, ovars>>

Redecode ==
    /\ codec.pc = "encoded"
    /\ codec' = [codec EXCEPT !.pc = "redecoded",
                              !.second = decode_l2(vcpu, memslots, codec.word)]
    /\ UNCHANGED <<vcpu, wvars, svars, excp, smp, ovars>>

(***************************************************************************)
(* Two virtual CPUs.  Each has its own root and its own l2_unused_pt; the  *)
(* host pages and their page_private are shared.  page_private++ and       *)
(* --page_private are a load followed by a store.                          *)
(***************************************************************************)
\* the page and the 1 KiB slot an L1 Coarse descriptor points to
FrameOf(l1_pte) == l1_pte \div (2^PAGE_SHIFT)
SlotOf(l1_pte) == Bits(l1_pte, 10, 2)

SmpVcpus == 2
SmpOps == MaxOps + 2
VcpuIds == 1..SmpVcpus
SmpL1 == {0, 1}

SmpIdle ==
    [pgd |-> [v \in VcpuIds |-> [i \in SmpL1 |-> 0]],
     unused |-> [v \in VcpuIds |-> 0],
     private |-> [f \in FrameIds |-> 0],
     free |-> [f \in FrameIds |-> TRUE],
     pc |-> [v \in VcpuIds |-> "idle"],
     reg |-> [v \in VcpuIds |-> 0],
     at |-> [v \in VcpuIds |-> [i |-> 0, l2_base |-> 0, root |-> FALSE]],
     halted |-> FALSE,
     ops |-> 0]

SmpReady(v) == ~smp.halted /\ smp.pc[v] = "idle" /\ smp.ops < SmpOps
SmpStep(v, pc) == ~smp.halted /\ smp.pc[v] = pc
SmpRest == UNCHANGED <<vcpu, wvars, svars, excp, codec, ovars>>

\* map_gva_to_pfn on an address whose L1 entry is Fault: alloc_l2_shadow up to
\* the load of page_private++
SmpInstall(v) ==
    /\ SmpReady(v)
    /\ \E i \in {j \in SmpL1 : Bits(smp.pgd[v][j], 0, 2) = L1_TYPE_FAULT} :
          IF smp.unused[v] = 0
          THEN \/ smp' = [smp EXCEPT !.ops = @ + 1]        \* -ENOMEM
               \/ \E f \in {g \in FrameIds : smp.free[g]} :
                     smp' = [smp EXCEPT
                                !.free[f] = FALSE,
                                !.private[f] = 0,
                                !.unused[v] = alloc_l2_shadow_next(f * (2^PAGE_SHIFT)),
                                !.at[v] = [i |-> i, l2_base |-> f * (2^PAGE_SHIFT),
                                           root |-> FALSE],
                                !.pc[v] = "alloc_load",
                                !.ops = @ + 1]
          ELSE smp' = [smp EXCEPT
                          !.unused[v] = alloc_l2_shadow_next(smp.unused[v]),
                          !.at[v] = [i |-> i, l2_base |-> smp.unused[v], root |-> FALSE],
                          !.pc[v] = "alloc_load",
                          !.ops = @ + 1]
    /\ SmpRest

\* page_private(virt_to_page(l2_base))++ : the load
SmpAllocLoad(v) ==
    /\ SmpStep(v, "alloc_load")
    /\ smp' = [smp EXCEPT !.reg[v] = smp.private[FrameOf(smp.at[v].l2_base)],
                          !.pc[v] = "alloc_store"]
    /\ SmpRest

\* ... the store, and the L1 entry __map_gva_to_pfn writes
SmpAllocStore(v) ==
    /\ SmpStep(v, "alloc_store")
    /\ smp' = [smp EXCEPT !.private[FrameOf(smp.at[v].l2_base)] = smp.reg[v] + 1,
                          !.pgd[v][smp.at[v].i] = shadow_l1_pte(smp.at[v].l2_base, 0),
                          !.pc[v] = "idle"]
    /\ SmpRest

\* free_l2_shadow up to BUG_ON(page_private(page) == 0), for L1 entry i
SmpFreeCheck(v, i, root) ==
    LET l1_pte == smp.pgd[v][i]
    IN  IF smp.private[FrameOf(l1_pte)] = 0
        THEN [smp EXCEPT !.halted = TRUE]
        ELSE [smp EXCEPT !.at[v] = [i |-> i, l2_base |-> l1_pte, root |-> root],
                         !.pc[v] = "free_load"]

\* unmap_gva_section on an address whose L1 entry is Coarse
SmpUnmapSection(v) ==
    /\ SmpReady(v)
    /\ \E i \in {j \in SmpL1 : Bits(smp.pgd[v][j], 0, 2) = L1_TYPE_COARSE} :
          smp' = [SmpFreeCheck(v, i, FALSE) EXCEPT !.ops = @ + 1]
    /\ SmpRest

\* --page_private(page) : the load
SmpFreeLoad(v) ==
    /\ SmpStep(v, "free_load")
    /\ smp' = [smp EXCEPT !.reg[v] = smp.private[FrameOf(smp.at[v].l2_base)],
                          !.pc[v] = "free_store"]
    /\ SmpRest

\* ... the store, __free_page when the result is 0, and the L1 entry cleared
SmpFreeStore(v) ==
    /\ SmpStep(v, "free_store")
    /\ LET f == FrameOf(smp.at[v].l2_base)
       IN  smp' = [smp EXCEPT !.private[f] = smp.reg[v] - 1,
                              !.free[f] = (smp.free[f] \/ smp.reg[v] - 1 = 0),
                              !.pgd[v][smp.at[v].i] = 0,
                              !.pc[v] = IF smp.at[v].root THEN "root" ELSE "idle"]
    /\ SmpRest

\* kvm_free_l1_shadow: the call
SmpFreeRoot(v) ==
    /\ SmpReady(v)
    /\ smp' = [smp EXCEPT !.pc[v] = "root", !.ops = @ + 1]
    /\ SmpRest

\* __free_l1_shadow_children: the next Coarse entry, or the end of the loop and
\* l2_unused_pt = NULL
SmpFreeRootNext(v) ==
    /\ SmpStep(v, "root")
    /\ LET left == {j \in SmpL1 : Bits(smp.pgd[v][j], 0, 2) = L1_TYPE_COARSE}
       IN  IF left = {}
           THEN smp' = [smp EXCEPT !.unused[v] = 0, !.pc[v] = "idle"]
           ELSE smp' = SmpFreeCheck(v, CHOOSE i \in left : \A j \in left : i <= j, TRUE)
    /\ SmpRest

(***************************************************************************)
(* __free_l1_shadow_children, one iteration of its loop at a time.         *)
(***************************************************************************)
L1_TABLE_ENTRIES == 4096
ScanIdle == [pc |-> "idle", root |-> 0, i |-> 0, l1_pte |-> 0, top |-> 0]

\* pgd[i] for an index inside the 16 KiB table
PgdAt(pgd, i) == IF i \in DOMAIN pgd THEN pgd[i] ELSE 0
\* what a read past the end of the table may return
BeyondPgd == {0, L1_TYPE_COARSE, L1_TYPE_SECTION}
\* the values pgd[i] may give
pgd_read(pgd, i) ==
    IF i < L1_TABLE_ENTRIES THEN {PgdAt(pgd, i)} ELSE BeyondPgd

\* kvm_free_l1_shadow(vcpu, shadow) up to the loop: u32 l1_pte = pgd[0]; i = 0
ScanBegin ==
    /\ ~sh.halted /\ scan.pc = "idle" /\ scan.root = 0
    /\ \E r \in LiveRoots :
          scan' = [pc |-> "loop", root |-> r, i |-> 0, l1_pte |-> roots[r].pgd[0],
                   top |-> 0]
    /\ UNCHANGED <<vcpu, wvars, svars, excp, codec, smp, hva, vdev, virq>>

\* one iteration: the body for l1_pte, then i++, l1_pte = pgd[i]
ScanIter ==
    /\ ~sh.halted /\ scan.pc = "loop" /\ scan.i < L1_TABLE_ENTRIES
    /\ LET r == scan.root
           i == scan.i
           ty == Bits(scan.l1_pte, 0, 2)
           f == IF ty = L1_TYPE_COARSE
                THEN free_l2_shadow(vcpu, frames, pages, scan.l1_pte)
                ELSE [frames |-> frames, pages |-> pages, bug |-> ty # L1_TYPE_FAULT]
           pgd2 == IF ty = L1_TYPE_COARSE /\ ~f.bug /\ i \in DOMAIN roots[r].pgd
                   THEN [roots[r].pgd EXCEPT ![i] = 0]
                   ELSE roots[r].pgd
       IN  /\ frames' = f.frames
           /\ pages' = f.pages
           /\ roots' = [roots EXCEPT ![r].pgd = pgd2]
           /\ IF f.bug
              THEN /\ sh' = [sh EXCEPT !.halted = TRUE]
                   /\ scan' = scan
              ELSE /\ sh' = sh
                   /\ \E w \in pgd_read(pgd2, i + 1) :
                         scan' = [scan EXCEPT !.i = i + 1, !.l1_pte = w,
                                              !.top = IF i + 1 > @ THEN i + 1 ELSE @]
    /\ UNCHANGED <<vcpu, wvars, excp, codec, smp, hva, vdev, virq, shadow_list, l2_unused_pt,
                   host_vectors_high>>

\* the loop is left; l2_unused_pt = NULL, free_pages, list_del, kfree
ScanEnd ==
    /\ ~sh.halted /\ scan.pc = "loop" /\ scan.i >= L1_TABLE_ENTRIES
    /\ roots' = [roots EXCEPT ![scan.root] = NoRoot]
    /\ shadow_list' = list_del(shadow_list, scan.root)
    /\ l2_unused_pt' = 0
    /\ sh' = [op |-> "free_root", call |-> [NoCall EXCEPT !.root = scan.root],
              ret |-> 0, halted |-> FALSE, ops |-> sh.ops + 1]
    /\ scan' = [scan EXCEPT !.pc = "idle"]
    /\ UNCHANGED <<vcpu, wvars, excp, codec, smp, hva, vdev, virq, frames, host_vectors_high,
                   pages>>

(***************************************************************************)
(* VFIO platform devices (drivers/vfio/platform).                          *)
(***************************************************************************)
ENODEV == 19
VdevCallers == 1..2       \* tasks that open and release the device
VdevOps == 4              \* calls of open and release per behaviour

\* vdev after vfio_platform_probe_common: never opened.  regions and irqs are
\* "none" (no array), "ready" (initialised) or "freed"; handles counts the
\* opens that returned 0 and were not released yet.
VdevIdle == [refcnt |-> 0, regions |-> "none", irqs |-> "none", module |-> 0,
             handles |-> 0, calls |-> 0,
             pc |-> [t \in VdevCallers |-> "idle"],
             ret |-> [t \in VdevCallers |-> 0]]

VdevRest == UNCHANGED <<vcpu, wvars, svars, excp, codec, smp, hva, scan, virq>>
VdevReturn(d, t, ret) == [d EXCEPT !.pc[t] = "idle", !.ret[t] = ret]

\* vfio_platform_open up to atomic_inc_return(&vdev->refcnt)
VdevOpen(t) ==
    /\ vdev.pc[t] = "idle" /\ vdev.calls < VdevOps
    /\ LET d == [vdev EXCEPT !.calls = @ + 1]
       IN  \/ vdev' = VdevReturn(d, t, -ENODEV)          \* try_module_get fails
           \/ vdev' = IF vdev.refcnt + 1 = 1
                      THEN [d EXCEPT !.module = @ + 1, !.refcnt = @ + 1,
                                     !.pc[t] = "regions_init"]
                      ELSE VdevReturn([d EXCEPT !.module = @ + 1, !.refcnt = @ + 1,
                                                !.handles = @ + 1], t, 0)
    /\ VdevRest

\* vfio_platform_regions_init, and err_reg when it fails
VdevRegionsInit(t) ==
    /\ vdev.pc[t] = "regions_init"
    /\ \/ vdev' = [vdev EXCEPT !.regions = "ready", !.pc[t] = "irq_init"]
       \/ vdev' = VdevReturn([vdev EXCEPT !.regions = "none", !.module = @ - 1],
                             t, -ENOMEM)               \* kcalloc fails
    /\ VdevRest

\* vfio_platform_irq_init, and err_irq when it fails
VdevIrqInit(t) ==
    /\ vdev.pc[t] = "irq_init"
    /\ \/ vdev' = VdevReturn([vdev EXCEPT !.irqs = "ready", !.handles = @ + 1], t, 0)
       \/ vdev' = VdevReturn([vdev EXCEPT !.irqs = "none", !.regions = "freed",
                                          !.module = @ - 1], t, -ENOMEM)
    /\ VdevRest

\* vfio_platform_release up to atomic_dec_and_test(&vdev->refcnt)
VdevRelease(t) ==
    /\ vdev.pc[t] = "idle" /\ vdev.calls < VdevOps /\ vdev.handles > 0
    /\ LET d == [vdev EXCEPT !.calls = @ + 1, !.handles = @ - 1, !.refcnt = @ - 1]
       IN  vdev' = IF vdev.refcnt - 1 = 0 THEN [d EXCEPT !.pc[t] = "cleanup"]
                   ELSE VdevReturn([d EXCEPT !.module = @ - 1], t, 0)
    /\ VdevRest

\* vfio_platform_regions_cleanup, vfio_platform_irq_cleanup, module_put
VdevCleanup(t) ==
    /\ vdev.pc[t] = "cleanup"
    /\ vdev' = VdevReturn([vdev EXCEPT !.regions = "freed", !.irqs = "freed",
                                       !.module = @ - 1], t, 0)
    /\ VdevRest

IRQ_NONE == 0
IRQ_HANDLED == 1
\* Contexts that touch one interrupt: the hardware interrupt, the SET_IRQS
\* ioctl (one at a time, under vdev->igate) and the virqfd callbacks.
VirqCtx == {"hard", "ioctl", "virqfd"}
IrqOps == 6               \* interrupts and requests per behaviour

\* One struct vfio_platform_irq before vfio_platform_irq_init.  depth is the
\* number of disables of the hardware line less the enables; holder is the
\* context inside spin_lock_irqsave(&irq_ctx->lock) across steps, or "";
\* sigs counts eventfd_signal calls, unmasks the enables, and since_sig and
\* since_found the signals and the handler runs that found the interrupt
\* unmasked since the last unmask request.
VirqIdle == [ready |-> FALSE, automasked |-> FALSE, masked |-> FALSE, depth |-> 0,
             holder |-> "", ops |-> 0,
             pc |-> [c \in VirqCtx |-> "idle"],
             ret |-> [c \in VirqCtx |-> IRQ_NONE],
             saw |-> [c \in VirqCtx |-> FALSE],
             sigs |-> 0, unmasks |-> 0, since_sig |-> 0, since_found |-> 0]

VirqRest == UNCHANGED <<vcpu, wvars, svars, excp, codec, smp, hva, scan, vdev>>

\* vfio_platform_irq_init: level-triggered lines are auto-masked
VirqInit ==
    /\ ~virq.ready
    /\ \E level \in BOOLEAN :
          virq' = [virq EXCEPT !.ready = TRUE, !.automasked = level, !.masked = FALSE]
    /\ VirqRest

\* The locked part of vfio_irq_handler, run by context c.
vfio_irq_handler_nomask(q, c) == IF ~q.masked THEN [q EXCEPT !.ret[c] = IRQ_HANDLED, !.saw[c] = FALSE, !.since_found = @ + 1, !.depth = IF q.automasked THEN @ + 1 ELSE @] ELSE [q EXCEPT !.ret[c] = IRQ_NONE, !.saw[c] = TRUE]
vfio_irq_handler(q, c) ==
    IF ~q.masked
    THEN LET h == [q EXCEPT !.ret[c] = IRQ_HANDLED, !.saw[c] = FALSE,
                            !.since_found = @ + 1]
         IN  IF q.automasked
             THEN [h EXCEPT !.depth = @ + 1, !.masked = TRUE]   \* disable_irq_nosync
             ELSE h
    ELSE [q EXCEPT !.ret[c] = IRQ_NONE, !.saw[c] = TRUE]

\* vfio_platform_unmask
vfio_platform_unmask(q) ==
    LET u == [q EXCEPT !.since_sig = 0, !.since_found = 0]
    IN  IF q.masked
        THEN [u EXCEPT !.depth = @ - 1, !.masked = FALSE, !.unmasks = @ + 1]
        ELSE u

\* vfio_platform_mask after it took the lock
vfio_platform_mask(q) ==
    IF ~q.masked THEN [q EXCEPT !.depth = @ + 1, !.masked = TRUE] ELSE q

\* The line is enabled and raises its interrupt: the handler is entered.
VirqRaise ==
    /\ virq.ready /\ virq.ops < IrqOps
    /\ virq.pc["hard"] = "idle" /\ virq.depth = 0
    /\ virq' = [virq EXCEPT !.pc["hard"] = "entered", !.ops = @ + 1]
    /\ VirqRest

\* vfio_irq_handler from the interrupt: lock, test and auto-mask, unlock
VirqHandler ==
    /\ virq.pc["hard"] = "entered" /\ virq.holder = ""
    /\ virq' = [vfio_irq_handler(virq, "hard") EXCEPT !.pc["hard"] = "tail"]
    /\ VirqRest

\* vfio_platform_set_irq_trigger with DATA_NONE or DATA_BOOL: the ioctl calls
\* vfio_irq_handler itself
VirqTrigger ==
    /\ virq.ready /\ virq.ops < IrqOps
    /\ virq.pc["ioctl"] = "idle" /\ virq.holder = ""
    /\ virq' = [vfio_irq_handler(virq, "ioctl") EXCEPT !.pc["ioctl"] = "tail",
                                                       !.ops = @ + 1]
    /\ VirqRest

\* vfio_irq_handler after the unlock: eventfd_signal if ret == IRQ_HANDLED
VirqTail(c) ==
    /\ virq.pc[c] = "tail"
    /\ virq' = IF virq.ret[c] = IRQ_HANDLED
               THEN [virq EXCEPT !.pc[c] = "idle", !.sigs = @ + 1, !.since_sig = @ + 1]
               ELSE [virq EXCEPT !.pc[c] = "idle"]
    /\ VirqRest

\* vfio_platform_unmask from the ioctl or from vfio_platform_unmask_handler
VirqUnmask(c) ==
    /\ c \in {"ioctl", "virqfd"}
    /\ virq.ready /\ virq.ops < IrqOps
    /\ virq.pc[c] = "idle" /\ virq.holder = ""
    /\ virq' = [vfio_platform_unmask(virq) EXCEPT !.ops = @ + 1]
    /\ VirqRest

\* vfio_platform_mask: spin_lock_irqsave
VirqMaskLock(c) ==
    /\ c \in {"ioctl", "virqfd"}
    /\ virq.ready /\ virq.ops < IrqOps
    /\ virq.pc[c] = "idle" /\ virq.holder = ""
    /\ virq' = [virq EXCEPT !.pc[c] = "mask", !.holder = c, !.ops = @ + 1]
    /\ VirqRest

\* vfio_platform_mask: disable_irq, which waits for a running interrupt
\* handler to return, then the unlock
VirqMask(c) ==
    /\ virq.pc[c] = "mask"
    /\ ~virq.masked => virq.pc["hard"] = "idle"
    /\ virq' = [vfio_platform_mask(virq) EXCEPT !.pc[c] = "idle", !.holder = ""]
    /\ VirqRest

(***************************************************************************)
(* Inputs.  Guest-controlled values are drawn from sets that cover every   *)
(* descriptor type, domains on both sides of the u8 boundary, every AP     *)
(* value, and readable as well as unreadable table addresses.              *)
(***************************************************************************)
DomSet == {0, 3, 4, 15}

\* DACR values as the sixteen 2-bit fields of the register.
DacrSet ==
    {[d \in 0..15 |-> c] : c \in {DOMAIN_NOACCESS, DOMAIN_CLIENT, DOMAIN_MANAGER}}
    \cup {[d \in 0..15 |-> IF d = 3 THEN c ELSE DOMAIN_NOACCESS] :
              c \in {DOMAIN_CLIENT, DOMAIN_MANAGER}}
    \cup {[d \in 0..15 |-> IF d = 0 THEN DOMAIN_MANAGER ELSE DOMAIN_CLIENT]}

MkSection(base, ss, ap, dom) == base * (2^20) + ss * (2^18) + ap * (2^10) + dom * 32 + 2
MkCoarse(base, dom) == base + dom * 32 + 1
MkL2(base, apbyte, type) == base * (2^12) + apbyte * 16 + 12 + type

GvaSet == {268435456,      \* 0x10000000
           273755188,      \* 0x10512c34
           2147483647}     \* 0x7fffffff

L2TableBase == 32 * 1024   \* 0x8000, a readable guest L2 table
L2TableGone == 36 * 1024   \* 0x9000, outside guest memory
L2TableHigh == 32 * 1024 + 262144   \* 0x48000, a readable table with address bit 18 set

L1Sections == {MkSection(b, ss, ap, dom) :
                   b \in {288, 291}, ss \in {0, 1}, ap \in 0..3, dom \in DomSet}
L1Coarses == {MkCoarse(L2TableBase, dom) : dom \in DomSet}
                 \cup {MkCoarse(L2TableGone, 0), MkCoarse(L2TableHigh, 3)}
L1Others == {0, 305419888, 3}     \* Fault (0, 0x12345670) and the reserved type

\* AP bytes [11:4]: uniform 00 01 10 11 in all subpages, and one mixed
L2Words == {MkL2(179422, apb, ty) : apb \in {0, 85, 170, 255, 27}, ty \in 0..3}

\* Page-table contents seen from one gva: the L1 word (or none: unreadable),
\* and the L2 word at the slot a Coarse descriptor with base L2TableBase selects.
PtConfigs ==
    {[l1 |-> <<w>>, l2 |-> 0] : w \in L1Sections \cup L1Others}
    \cup {[l1 |-> <<w>>, l2 |-> x] : w \in L1Coarses, x \in L2Words}
    \cup {[l1 |-> <<>>, l2 |-> 0]}

GuestMem(v, gva, pt) ==
    LET a1 == L1Addr(v, gva)
        a2 == L2TableBase + Bits(gva, 12, 8) * 4
        a3 == L2TableHigh + Bits(gva, 12, 8) * 4
    IN  [a \in (IF pt.l1 = <<>> THEN {} ELSE {a1}) \cup {a2, a3} |->
            IF a \in {a2, a3} THEN pt.l2 ELSE pt.l1[1]]

Slot(b, n) == [base_gfn |-> b, npages |-> n]

\* Memory slots: unused (zeroed), RAM at 0, and slots under and over 0xffffff.
SlotChoices == {Slot(0, 0), Slot(0, 4096), Slot(16777200, 16), Slot(16777184, 16),
                Slot(16777216, 16)}

SlotConfigs ==
    {s \in [1..NumSlots -> SlotChoices] :
        \A i, j \in 1..NumSlots :
            (i # j /\ s[i].npages > 0 /\ s[j].npages > 0) => s[i] # s[j]}

VcpuSet == [c3_DACR : DacrSet, mmu_enabled : BOOLEAN, mmu_xp : BOOLEAN,
            ttbr : {16384}]

ReqSet == [gva : GvaSet, uaccess : {0, 1}, write : BOOLEAN]

DefaultSlots == [i \in 1..NumSlots |-> IF i = 1 THEN Slot(0, 4096) ELSE Slot(0, 0)]

\* The walker's inputs: any guest state, one request.
InitWalk ==
    /\ vcpu \in VcpuSet
    /\ req \in ReqSet
    /\ memslots = DefaultSlots
    /\ \E pt \in {p \in PtConfigs : IF vcpu.mmu_enabled \/ p.l1 = <<>> THEN TRUE
                                    ELSE p.l1[1] \in L1Others} :
           gmem = GuestMem(vcpu, req.gva, pt)
    /\ walk = WalkIdle
    /\ excp = ExcpIdle
    /\ smp = SmpIdle
    /\ scan = ScanIdle
    /\ vdev = VdevIdle
    /\ virq = VirqIdle
    /\ hva = HvaIdle
    /\ codec = CodecIdle
    /\ ShadowIdle

NextWalk == Translate

SpecWalk == InitWalk /\ [][NextWalk]_vars

\* Memory slots vary; the walk is one that ends in a translation fault or nearby.
InitSlots ==
    /\ vcpu \in {v \in VcpuSet : v.mmu_enabled
                     /\ v.c3_DACR = [d \in 0..15 |-> DOMAIN_CLIENT]}
    /\ req \in {r \in ReqSet : ~r.write /\ r.uaccess = 0}
    /\ memslots \in SlotConfigs
    /\ \E pt \in {p \in PtConfigs : IF p.l1 = <<>> THEN FALSE
                     ELSE \/ p.l1[1] \in L1Others
                          \/ p.l1[1] = MkCoarse(L2TableBase, 0)
                             /\ p.l2 \in {MkL2(179422, 85, ty) : ty \in {0, 2}}} :
           gmem = GuestMem(vcpu, req.gva, pt)
    /\ walk = WalkIdle
    /\ excp = ExcpIdle
    /\ smp = SmpIdle
    /\ scan = ScanIdle
    /\ vdev = VdevIdle
    /\ virq = VirqIdle
    /\ hva = HvaIdle
    /\ codec = CodecIdle
    /\ ShadowIdle

SpecSlots == InitSlots /\ [][NextWalk]_vars

\* One call of gva_to_hva on guest tables that map frames inside guest RAM
\* (memory slot 1, frames 0..4095) as well as frames outside it.
HvaPtConfigs ==
    {[l1 |-> <<MkSection(b, 0, ap, dom)>>, l2 |-> 0] :
        b \in {1, 288}, ap \in 0..3, dom \in {0, 3}}
    \cup {[l1 |-> <<w>>, l2 |-> 0] : w \in L1Others}
    \cup {[l1 |-> <<MkCoarse(L2TableBase, dom)>>, l2 |-> MkL2(f, apb, ty)] :
             dom \in {0, 3}, f \in {1234, 179422}, apb \in {0, 85, 255}, ty \in 0..3}
    \cup {[l1 |-> <<>>, l2 |-> 0]}

InitHva ==
    /\ vcpu \in VcpuSet
    /\ req \in {r \in ReqSet : ~r.write}
    /\ memslots = DefaultSlots
    /\ \E pt \in {p \in HvaPtConfigs : IF vcpu.mmu_enabled \/ p.l1 = <<>> THEN TRUE
                                       ELSE p.l1[1] \in L1Others} :
           gmem = GuestMem(vcpu, req.gva, pt)
    /\ walk = WalkIdle
    /\ excp = ExcpIdle
    /\ smp = SmpIdle
    /\ scan = ScanIdle
    /\ vdev = VdevIdle
    /\ virq = VirqIdle
    /\ hva = HvaIdle
    /\ codec = CodecIdle
    /\ ShadowIdle

NextHva == GvaToHva

SpecHva == InitHva /\ [][NextHva]_vars

\* A VCPU with no shadow tables yet; the guest's DACR and paging mode are fixed.
InitShadow ==
    /\ vcpu \in {v \in VcpuSet : v.mmu_enabled
                     /\ v.c3_DACR \in {[d \in 0..15 |-> DOMAIN_CLIENT],
                                       [d \in 0..15 |-> IF d = 0 THEN DOMAIN_MANAGER
                                                        ELSE DOMAIN_CLIENT]}}
    /\ req = CHOOSE r \in ReqSet : TRUE
    /\ memslots = DefaultSlots
    /\ gmem = <<>>
    /\ walk = WalkIdle
    /\ excp = ExcpIdle
    /\ smp = SmpIdle
    /\ scan = ScanIdle
    /\ vdev = VdevIdle
    /\ virq = VirqIdle
    /\ hva = HvaIdle
    /\ codec = CodecIdle
    /\ ShadowIdle

NextShadow == AllocRoot \/ Install \/ UnmapSection \/ FreeRoot \/ HostReusesFrame

SpecShadow == InitShadow /\ [][NextShadow]_vars

\* Longer runs of fewer kinds of call.
NextDeep == AllocRootDeep \/ InstallDeep \/ UnmapSectionDeep \/ FreeRootDeep
                \/ HostReusesFrame

SpecDeep == InitShadow /\ [][NextDeep]_vars

\* The same with unmap_gva.
NextPages == NextShadow \/ UnmapPage

SpecPages == InitShadow /\ [][NextPages]_vars

\* Every entry point of the shadow-table manager.
NextMmu == NextPages \/ SwitchVectors

SpecMmu == InitShadow /\ [][NextMmu]_vars

\* A root is initialised, then the vector base is switched back and forth
\* while other pages are installed.
VecOps == MaxOps + 3
AllocRootVec == AllocRootIn(VecOps)
InitRootVec == InitRootIn(VecOps)
InstallVec == InstallIn(VecOps, {256}, {64}, DeepArgs)
SwitchVectorsVec == SwitchVectorsIn(VecOps)
NextVectors == AllocRootVec \/ InitRootVec \/ InstallVec \/ SwitchVectorsVec

SpecVectors == InitShadow /\ [][NextVectors]_vars

\* The entry points applied to a table handed in by the caller: pgd is a
\* parameter of each of them, and its entries may be of any descriptor type.
ForeignL1 == {0, L1_TYPE_SECTION + 64 * 1048576, 3}
ForeignL2 == {0, shadow_l2_pte(64, 3, 0, 0, 1), L2_TYPE_LARGE + 64 * 4096}
InitTables ==
    /\ vcpu \in {v \in VcpuSet : v.mmu_enabled /\ v.mmu_xp
                     /\ v.c3_DACR = [d \in 0..15 |-> DOMAIN_CLIENT]}
    /\ req = CHOOSE r \in ReqSet : TRUE
    /\ memslots = DefaultSlots
    /\ gmem = <<>>
    /\ walk = WalkIdle
    /\ excp = ExcpIdle
    /\ smp = SmpIdle
    /\ scan = ScanIdle
    /\ vdev = VdevIdle
    /\ virq = VirqIdle
    /\ hva = HvaIdle
    /\ codec = CodecIdle
    /\ shadow_list = <<1>>
    /\ host_vectors_high = FALSE
    /\ sh = [op |-> "none", call |-> NoCall, ret |-> 0, halted |-> FALSE, ops |-> 0]
    /\ \E w1 \in ForeignL1, coarse \in BOOLEAN, w2 \in ForeignL2 :
          LET f == CHOOSE g \in FrameIds : TRUE
              l1 == IF coarse THEN shadow_l1_pte(f * 4096, 0) ELSE 0
          IN  /\ roots = [r \in RootIds |->
                            IF r = 1
                            THEN [state |-> "live",
                                  pgd |-> [i \in L1Used |->
                                             IF i = 0 THEN w1
                                             ELSE IF i = 1 THEN l1 ELSE 0],
                                  guest_ttbr |-> vcpu.ttbr]
                            ELSE NoRoot]
              /\ frames = [g \in FrameIds |->
                             IF g = f /\ coarse
                             THEN [free |-> FALSE, private |-> 1,
                                   tab |-> [ZeroPage EXCEPT ![0][0] = w2]]
                             ELSE NoPage]
              /\ l2_unused_pt = IF coarse THEN f * 4096 + 1024 ELSE 0
              /\ pages = [p \in HostPages |->
                            [pinned |-> IF coarse /\ w2 # 0 /\ p = 64 THEN 1 ELSE 0,
                             clean |-> 0, dirty |-> 0]]

InstallTables == InstallIn(MaxOps, DeepVpns, {64}, DeepArgs)
UnmapSectionTables == UnmapSectionIn(MaxOps, DeepVpns)
NextTables == InstallTables \/ UnmapSectionTables \/ UnmapPage \/ FreeRoot

SpecTables == InitTables /\ [][NextTables]_vars

\* Fault injection after guest exits.
NextFault == GuestExit \/ GenerateFault

SpecFault == InitShadow /\ [][NextFault]_vars

\* Extended small-page descriptors: both XN values, every AP and APX, every
\* C/B combination, TEX 0 and 1, S and nG set and clear.
ExtSmallWords ==
    {f * 4096 + L2_XP_TYPE_EXT_SMALL + xn + cb * 4 + ap * 16 + tex * 64 + apx * 512
         + sng * 1024 :
       f \in {64, 65}, xn \in {0, 1}, cb \in 0..3, ap \in 0..3, tex \in {0, 1},
       apx \in {0, 1}, sng \in {0, 3}}

InitCodec ==
    /\ vcpu \in {v \in VcpuSet : v.mmu_enabled /\ v.mmu_xp
                     /\ v.c3_DACR = [d \in 0..15 |-> DOMAIN_CLIENT]}
    /\ req = CHOOSE r \in ReqSet : TRUE
    /\ memslots = DefaultSlots
    /\ gmem = <<>>
    /\ walk = WalkIdle
    /\ excp = ExcpIdle
    /\ smp = SmpIdle
    /\ scan = ScanIdle
    /\ vdev = VdevIdle
    /\ virq = VirqIdle
    /\ hva = HvaIdle
    /\ ShadowIdle
    /\ codec \in {[CodecIdle EXCEPT !.pc = "word", !.desc = d] : d \in ExtSmallWords}

NextCodec == Decode \/ Encode \/ Redecode

SpecCodec == InitCodec /\ [][NextCodec]_vars

\* Two virtual CPUs in any interleaving.
NextSmp ==
    \E v \in VcpuIds :
        \/ SmpInstall(v) \/ SmpAllocLoad(v) \/ SmpAllocStore(v)
        \/ SmpUnmapSection(v) \/ SmpFreeLoad(v) \/ SmpFreeStore(v)
        \/ SmpFreeRoot(v) \/ SmpFreeRootNext(v)

SpecSmp == InitShadow /\ [][NextSmp]_vars

\* Installs into the special regions under every class of guest domain.
InitDomains ==
    /\ vcpu \in {v \in VcpuSet : v.mmu_enabled /\ v.mmu_xp}
    /\ req = CHOOSE r \in ReqSet : TRUE
    /\ memslots = DefaultSlots
    /\ gmem = <<>>
    /\ walk = WalkIdle
    /\ excp = ExcpIdle
    /\ smp = SmpIdle
    /\ scan = ScanIdle
    /\ vdev = VdevIdle
    /\ virq = VirqIdle
    /\ hva = HvaIdle
    /\ codec = CodecIdle
    /\ ShadowIdle

DomainVpns == {1, 256, 257, EXCEPTION_VECTOR_HIGH_VPN, SHARED_PAGE_VPN}
InstallDomains == InstallIn(MaxOps, DomainVpns, {64}, InstallArgs)
NextDomains == AllocRoot \/ InstallDomains \/ SwitchVectors

SpecDomains == InitDomains /\ [][NextDomains]_vars

\* Roots are allocated, initialised, filled, emptied and freed.
FlushOps == MaxOps + 1
AllocRootFlush == AllocRootIn(FlushOps)
InitRootFlush == InitRootIn(FlushOps)
InstallFlush == InstallIn(FlushOps, DeepVpns, {64}, DeepArgs)
UnmapSectionFlush == UnmapSectionIn(FlushOps, DeepVpns)
FreeRootFlush == FreeRootIn(FlushOps)
NextFlush == AllocRootFlush \/ InitRootFlush \/ InstallFlush \/ UnmapSectionFlush
                 \/ UnmapPage \/ FreeRootFlush

SpecFlush == InitShadow /\ [][NextFlush]_vars

\* The life of a root with its vector page.  It starts with the root
\* allocated and initialised (kvm_init_l1_shadow returned 0, vectors low);
\* the root is then flushed, its vector base switched, and at last freed.
LifeOps == MaxOps + 1
InitLife ==
    /\ vcpu \in {v \in VcpuSet : v.mmu_enabled /\ v.mmu_xp
                     /\ v.c3_DACR = [d \in 0..15 |-> DOMAIN_CLIENT]}
    /\ req = CHOOSE r \in ReqSet : TRUE
    /\ memslots = DefaultSlots
    /\ gmem = <<>>
    /\ walk = WalkIdle
    /\ excp = ExcpIdle
    /\ smp = SmpIdle
    /\ scan = ScanIdle
    /\ vdev = VdevIdle
    /\ virq = VirqIdle
    /\ hva = HvaIdle
    /\ codec = CodecIdle
    /\ shadow_list = <<1>>
    /\ host_vectors_high = FALSE
    /\ sh = [op |-> "none", call |-> NoCall, ret |-> 0, halted |-> FALSE, ops |-> 0]
    /\ pages = [p \in HostPages |->
                  [pinned |-> IF p \in {SharedPagePfn, GuestVectorsPfn} THEN 1 ELSE 0,
                   clean |-> 0, dirty |-> 0]]
    /\ \E a \in map_gva_to_pfn(vcpu, FALSE, ZeroPgd, [f \in FrameIds |-> NoPage], 0,
                               SHARED_PAGE_VPN, SharedPagePfn, KVM_SPECIAL_DOMAIN,
                               KVM_AP_RDWRITE, KVM_AP_NONE, KVM_MEM_EXEC) :
          /\ a.ret = 0
          /\ \E b \in map_gva_to_pfn(vcpu, FALSE, a.pgd, a.frames, a.unused,
                                     VCPU_HOST_EXCP_BASE(FALSE), GuestVectorsPfn,
                                     KVM_SPECIAL_DOMAIN, KVM_AP_RDWRITE, KVM_AP_NONE,
                                     KVM_MEM_EXEC) :
                /\ b.ret = 0
                /\ roots = [r \in RootIds |->
                              IF r = 1 THEN [state |-> "live", pgd |-> b.pgd,
                                             guest_ttbr |-> vcpu.ttbr]
                              ELSE NoRoot]
                /\ frames = b.frames
                /\ l2_unused_pt = b.unused

InitRootLife == InitRootIn(LifeOps)
SwitchVectorsLife == SwitchVectorsIn(LifeOps)
FreeRootLife == FreeRootIn(LifeOps)
NextLife == InitRootLife \/ SwitchVectorsLife \/ FreeRootLife

SpecLife == InitLife /\ [][NextLife]_vars

\* An initialised root is freed, the loop over its L1 entries step by step.
NextScan == ScanBegin \/ ScanIter \/ ScanEnd

SpecScan == InitLife /\ [][NextScan]_vars

\* Tasks open and release one VFIO platform device.
NextVdev ==
    \E t \in VdevCallers :
        \/ VdevOpen(t) \/ VdevRegionsInit(t) \/ VdevIrqInit(t)
        \/ VdevRelease(t) \/ VdevCleanup(t)

SpecVdev == InitShadow /\ [][NextVdev]_vars

\* One VFIO platform interrupt, its handler and the mask and unmask requests.
NextVirq ==
    \/ VirqInit \/ VirqRaise \/ VirqHandler \/ VirqTrigger
    \/ \E c \in VirqCtx : VirqTail(c) \/ VirqUnmask(c) \/ VirqMaskLock(c) \/ VirqMask(c)

SpecVirq == InitShadow /\ [][NextVirq]_vars

(***************************************************************************)
(* What the request meets in the guest tables (read off the state).        *)
(***************************************************************************)
Walked == walk.pc # "idle"
Returned == walk.pc = "done"
L1Readable == L1Addr(vcpu, req.gva) \in DOMAIN gmem
L1Entry == IF L1Readable THEN gmem[L1Addr(vcpu, req.gva)] ELSE 0
L1Is(ty) == vcpu.mmu_enabled /\ L1Readable /\ Bits(L1Entry, 0, 2) = ty
L2Address == Field(L1Entry, 10, 22) + Bits(req.gva, 12, 8) * 4
L2Readable == L2Address \in DOMAIN gmem
L2Entry == IF L2Readable THEN gmem[L2Address] ELSE 0
L2IsPage == L1Is(L1_TYPE_COARSE) /\ L2Readable /\ Bits(L2Entry, 0, 2) \in {2, 3}
\* the domain number the descriptor carries, and its class in the DACR
DescDomain == Bits(L1Entry, 5, 4)
DacrClass(d) == vcpu.c3_DACR[d]
\* the class the walker resolved for the descriptor
WalkerClass == l1_domain_access(vcpu.c3_DACR, L1Entry).type
\* the 2-bit AP field that governs the requested address
SectionAp == Bits(L1Entry, 10, 2)
PageAp == IF ~vcpu.mmu_xp /\ Bits(L2Entry, 0, 2) = L2_TYPE_SMALL
          THEN Bits(L2Entry, 4 + 2 * Bits(req.gva, 10, 2), 2)
          ELSE Bits(L2Entry, 4, 2)
UniformSubpages == LET b == Bits(L2Entry, 4, 8) IN b \in {0, 85, 170, 255}

\* C1: with the guest MMU disabled, gva_to_gfn returns 0 with gfn = gva >> 12,
\* map_info domain 0 and ap 0xff, and reads no guest page-table entry.
Thm_C1 ==
    (Walked /\ ~vcpu.mmu_enabled) =>
        /\ Returned
        /\ walk.ret = 0
        /\ req.gva - walk.gfn * 4096 \in 0..4095
        /\ walk.map_info.domain_number = 0
        /\ walk.map_info.ap = 255
        /\ walk.reads = <<>>

Wit_C1 ==
    /\ Returned /\ ~vcpu.mmu_enabled
    /\ req.gva = 273755188 /\ walk.gfn = 66834
    /\ ~L1Readable

\* C2 (as claimed): for a Section descriptor carrying domain d, DACR class
\* Manager allows the access whatever the AP bits and privilege level, No-Access
\* gives a domain fault, and Client gives success or a permission fault as the
\* AP bits decide.
Cex_C2 ==
    (Returned /\ L1Is(L1_TYPE_SECTION) /\ ~is_supersection(L1Entry)) =>
        /\ DacrClass(DescDomain) = DOMAIN_MANAGER => walk.ret = 0
        /\ DacrClass(DescDomain) = DOMAIN_NOACCESS => walk.ret = FSR_DOMAIN_SEC
        /\ DacrClass(DescDomain) = DOMAIN_CLIENT =>
               walk.ret = IF kvm_decode_ap(SectionAp, req.uaccess) = KVM_AP_NONE
                          THEN FSR_PERM_SEC ELSE 0

\* C3 (as claimed): for a Coarse entry whose domain the DACR marks Client and a
\* small-page L2 entry (subpage permissions uniform), gva_to_gfn returns
\* FSR_PERM_PAGE exactly when the AP bits grant the requesting privilege level
\* nothing, 0 otherwise, and the frame is the L2 descriptor's bits [31:12].
Cex_C3 ==
    (Walked /\ L2IsPage /\ UniformSubpages /\ ~is_supersection(L1Entry)
        /\ DacrClass(DescDomain) = DOMAIN_CLIENT) =>
        /\ Returned
        /\ walk.ret = IF kvm_decode_ap(PageAp, req.uaccess) = KVM_AP_NONE
                      THEN FSR_PERM_PAGE ELSE 0
        /\ walk.gfn = Bits(L2Entry, 12, 20)

\* C4 (as claimed): under a Client domain a write request to a page or section
\* whose AP bits grant the requesting privilege level read-only access gets a
\* permission fault.
Cex_C4 ==
    (Returned /\ req.write /\ WalkerClass = DOMAIN_CLIENT
        /\ \/ L1Is(L1_TYPE_SECTION)
              /\ kvm_decode_ap(SectionAp, req.uaccess) = KVM_AP_RDONLY
           \/ L2IsPage /\ UniformSubpages
              /\ kvm_decode_ap(PageAp, req.uaccess) = KVM_AP_RDONLY) =>
        walk.ret \in {FSR_PERM_SEC, FSR_PERM_PAGE}

\* C4 (amended): the AP bits are interpreted per privilege level only.  A
\* permission fault is returned only for a descriptor whose domain resolves to
\* Client and whose AP bits grant the requesting privilege level no access, and
\* under a resolved Client domain it is returned exactly then; a request to a
\* read-only page gets no permission fault, write or read alike.
Thm_C4 ==
    /\ (Returned /\ walk.ret = FSR_PERM_SEC) =>
           /\ L1Is(L1_TYPE_SECTION) /\ WalkerClass = DOMAIN_CLIENT
           /\ kvm_decode_ap(SectionAp, req.uaccess) = KVM_AP_NONE
    /\ (Returned /\ walk.ret = FSR_PERM_PAGE) =>
           /\ L2IsPage /\ WalkerClass = DOMAIN_CLIENT
           /\ kvm_decode_ap(PageAp, req.uaccess) = KVM_AP_NONE
    /\ (Returned /\ walk.ret >= 0 /\ WalkerClass = DOMAIN_CLIENT) =>
           /\ (L1Is(L1_TYPE_SECTION)
                  /\ kvm_decode_ap(SectionAp, req.uaccess) # KVM_AP_NONE)
                  => walk.ret = 0
           /\ (L1Is(L1_TYPE_SECTION)
                  /\ kvm_decode_ap(SectionAp, req.uaccess) = KVM_AP_NONE)
                  => walk.ret = FSR_PERM_SEC
           /\ (L2IsPage /\ kvm_decode_ap(PageAp, req.uaccess) # KVM_AP_NONE)
                  => walk.ret = 0
           /\ (L2IsPage /\ kvm_decode_ap(PageAp, req.uaccess) = KVM_AP_NONE)
                  => walk.ret = FSR_PERM_PAGE

Wit_C4 ==
    /\ Returned /\ req.write /\ req.uaccess = 1
    /\ L2IsPage /\ WalkerClass = DOMAIN_CLIENT
    /\ kvm_decode_ap(PageAp, req.uaccess) = KVM_AP_RDONLY
    /\ walk.ret = 0

\* C5: an L1 descriptor of type Fault makes gva_to_gfn return FSR_TRANS_SEC and
\* a gfn that lies in no registered memory slot, whatever the slots are.
Thm_C5 ==
    (Walked /\ L1Is(L1_TYPE_FAULT)) =>
        /\ Returned
        /\ walk.ret = FSR_TRANS_SEC
        /\ \A i \in 1..NumSlots :
               ~(memslots[i].base_gfn <= walk.gfn
                 /\ walk.gfn < memslots[i].base_gfn + memslots[i].npages)

Wit_C5 ==
    /\ Returned /\ L1Is(L1_TYPE_FAULT) /\ walk.ret = FSR_TRANS_SEC
    /\ req.gva = 268435456
    /\ kvm_is_visible_gfn(memslots, INVISIBLE_START)
    /\ walk.gfn # INVISIBLE_START

\* C6: on the Coarse path a failed L1 domain check gives FSR_DOMAIN_PAG whatever
\* the L2 stage finds; with the L1 check passed, the L2 stage's fault code is
\* returned; 0 is returned only when neither stage fails.
Thm_C6 ==
    (Returned /\ L1Is(L1_TYPE_COARSE) /\ L2Readable /\ walk.ret >= 0) =>
        LET l2fault == Bits(L2Entry, 0, 2) = L2_TYPE_FAULT
            l2deny == /\ WalkerClass = DOMAIN_CLIENT
                      /\ kvm_decode_ap(PageAp, req.uaccess) = KVM_AP_NONE
        IN  /\ WalkerClass = DOMAIN_NOACCESS => walk.ret = FSR_DOMAIN_PAG
            /\ (WalkerClass # DOMAIN_NOACCESS /\ l2fault) => walk.ret = FSR_TRANS_PAGE
            /\ (WalkerClass # DOMAIN_NOACCESS /\ ~l2fault /\ l2deny)
                   => walk.ret = FSR_PERM_PAGE
            /\ walk.ret = 0 => (WalkerClass # DOMAIN_NOACCESS /\ ~l2fault /\ ~l2deny)

Wit_C6 ==
    /\ Returned /\ L1Is(L1_TYPE_COARSE) /\ L2Readable
    /\ WalkerClass = DOMAIN_NOACCESS
    /\ Bits(L2Entry, 0, 2) = L2_TYPE_FAULT
    /\ walk.ret = FSR_DOMAIN_PAG

\* C7: a failed guest-memory read of the L1 or of the L2 descriptor ends the
\* walk with that negative error: never 0, never a fault code, no further read,
\* no frame written.
Thm_C7 ==
    (Walked /\ vcpu.mmu_enabled
        /\ (~L1Readable \/ (L1Is(L1_TYPE_COARSE) /\ ~L2Readable))) =>
        /\ Returned
        /\ walk.ret = -EFAULT
        /\ walk.ret < 0 /\ walk.ret \notin FaultCodes
        /\ walk.gfn = NoGfn
        /\ walk.reads = IF ~L1Readable THEN <<L1Addr(vcpu, req.gva)>>
                        ELSE <<L1Addr(vcpu, req.gva), L2Address>>

Wit_C7 ==
    /\ Returned /\ L1Is(L1_TYPE_COARSE) /\ ~L2Readable
    /\ walk.ret = -EFAULT /\ Len(walk.reads) = 2

\* C8 (as claimed): whatever the guest descriptors are, the walk returns; it
\* never halts the hypervisor.
Cex_C8 == walk.pc # "bug"

\* C9: a Section gives frame (desc[31:20] | gva[19:0]) >> 12; a Supersection
\* in extended-paging mode gives (desc[31:24] | gva[23:0]) >> 12, or -EINVAL
\* when a bit of [23:20] or [8:5] is set; the fault code does not change that.
Thm_C9 ==
    (Walked /\ L1Is(L1_TYPE_SECTION)) =>
        /\ Returned
        /\ ~is_supersection(L1Entry) =>
               /\ walk.ret \in {0, FSR_DOMAIN_SEC, FSR_PERM_SEC}
               /\ walk.gfn = Bits(L1Entry, 20, 12) * 256 + Bits(req.gva, 12, 8)
        /\ (is_supersection(L1Entry) /\ vcpu.mmu_xp) =>
               IF Bits(L1Entry, 20, 4) # 0 \/ Bits(L1Entry, 5, 4) # 0
               THEN walk.ret = -EINVAL /\ walk.gfn = NoGfn
               ELSE /\ walk.ret \in {0, FSR_DOMAIN_SEC, FSR_PERM_SEC}
                    /\ walk.gfn = Bits(L1Entry, 24, 8) * 4096 + Bits(req.gva, 12, 12)

Wit_C9 ==
    /\ Returned /\ L1Is(L1_TYPE_SECTION)
    /\ is_supersection(L1Entry) /\ vcpu.mmu_xp
    /\ walk.ret = FSR_PERM_SEC
    /\ req.gva = 273755188 /\ walk.gfn = 73728 + 1298

(***************************************************************************)
(* Shadow tables: what the frames hold (read off the state).               *)
(***************************************************************************)
\* the 1 KiB sub-tables of frame f that hold at least one non-Fault entry
MappedSlots(f) ==
    {s \in 0..3 : \E i \in L2Used : Bits(frames[f].tab[s][i], 0, 2) # L2_TYPE_FAULT}

\* C10: after any sequence of install, unmap_section and free_root calls, the
\* live sub-table count (page_private) of every host frame in use equals the
\* number of its four 1 KiB sub-tables that hold at least one non-Fault entry.
Cex_C10 ==
    \A f \in FrameIds :
        ~frames[f].free => frames[f].private = Cardinality(MappedSlots(f))

\* the Coarse entries of the live roots, as <<root, l1 index>>
CoarseEntries ==
    {e \in LiveRoots \X L1Used :
        Bits(roots[e[1]].pgd[e[2]], 0, 2) = L1_TYPE_COARSE}

\* C11: in every reachable state, every Coarse entry of every shadow L1 root
\* points at a host frame whose live sub-table count is between 1 and 4.
Cex_C11 ==
    \A e \in CoarseEntries :
        frames[FrameOf(roots[e[1]].pgd[e[2]])].private \in 1..4

\* the non-Fault L2 entries that map page p and can be reached from a live root
ReachableEntries(p) ==
    {x \in CoarseEntries \X L2Used :
        LET l1 == roots[x[1][1]].pgd[x[1][2]]
            w == frames[FrameOf(l1)].tab[SlotOf(l1)][x[2]]
        IN  Bits(w, 0, 2) # L2_TYPE_FAULT /\ Bits(w, 12, 20) = p}
\* references handed over with an install and not yet released
Outstanding(p) == pages[p].pinned - pages[p].clean - pages[p].dirty

\* C12: after any sequence of install, unmap_page, unmap_section and free_root,
\* the non-Fault shadow L2 entries reachable from a root and the outstanding
\* references to guest pages correspond one to one.
Cex_C12 ==
    \A p \in PfnSet : Cardinality(ReachableEntries(p)) = Outstanding(p)

(***************************************************************************)
(* Steps of the shadow-table manager (read off a step).                    *)
(***************************************************************************)
Called(op) == sh'.ops = sh.ops + 1 /\ sh'.op = op
ShadowUnchanged ==
    UNCHANGED <<roots, shadow_list, frames, l2_unused_pt, host_vectors_high, pages>>
InconsistentAps(xp, priv_ap, user_ap) ==
    \/ priv_ap = KVM_AP_NONE /\ user_ap # KVM_AP_NONE
    \/ xp /\ priv_ap = KVM_AP_RDONLY /\ user_ap = KVM_AP_RDWRITE
    \/ ~xp /\ priv_ap = KVM_AP_RDONLY

\* C13: an install with an inconsistent permission pair (privileged none with
\* user not none; privileged read-only with user read/write in extended-paging
\* mode; privileged read-only in legacy mode) returns -EINVAL and changes no
\* shadow state.
Thm_C13 ==
    [][(Called("install")
          /\ InconsistentAps(vcpu.mmu_xp, sh'.call.priv_ap, sh'.call.user_ap))
       => (sh'.ret = -EINVAL /\ ShadowUnchanged)]_vars

Wit_C13 ==
    /\ sh.op = "install" /\ sh.ret = -EINVAL
    /\ vcpu.mmu_xp
    /\ sh.call.priv_ap = KVM_AP_RDONLY /\ sh.call.user_ap = KVM_AP_RDWRITE
    /\ CoarseEntries # {}

\* the L1 entry and the L2 entry the last call's address selects, before and
\* after the step
CallL1 == roots[sh'.call.root].pgd[sh'.call.vpn \div 256]
CallL1After == roots'[sh'.call.root].pgd[sh'.call.vpn \div 256]
L2At(fr, l1_pte, vpn) == fr[FrameOf(l1_pte)].tab[SlotOf(l1_pte)][vpn % 256]
CountsUnchanged ==
    \A f \in FrameIds : /\ frames'[f].private = frames[f].private
                         /\ frames'[f].free = frames[f].free
Accepted == ~InconsistentAps(vcpu.mmu_xp, sh'.call.priv_ap, sh'.call.user_ap)

\* C14: an install (with a consistent permission pair) for an address whose L1
\* entry is already Coarse succeeds, keeps the L1 entry on the same sub-table,
\* writes the L2 entry of the page so that it holds the frame of this call,
\* allocates no sub-table and leaves every frame's sub-table count unchanged.
Thm_C14 ==
    [][(Called("install") /\ Accepted /\ Bits(CallL1, 0, 2) = L1_TYPE_COARSE)
       => /\ sh'.ret = 0
          /\ Bits(CallL1After, 0, 2) = L1_TYPE_COARSE
          /\ FrameOf(CallL1After) = FrameOf(CallL1)
          /\ SlotOf(CallL1After) = SlotOf(CallL1)
          /\ Bits(L2At(frames', CallL1, sh'.call.vpn), 12, 20) = sh'.call.pfn
          /\ Bits(L2At(frames', CallL1, sh'.call.vpn), 0, 2) # L2_TYPE_FAULT
          /\ l2_unused_pt' = l2_unused_pt
          /\ CountsUnchanged]_vars

\* the last install went to a second page of a sub-table
Wit_C14 ==
    /\ sh.op = "install" /\ sh.ret = 0
    /\ \E e \in CoarseEntries :
          LET l1 == roots[e[1]].pgd[e[2]]
          IN  /\ e = <<sh.call.root, sh.call.vpn \div 256>>
              /\ Cardinality({j \in L2Used :
                     Bits(frames[FrameOf(l1)].tab[SlotOf(l1)][j], 0, 2) # 0}) >= 2

\* the 1 MiB regions (L1 indices) of the shared page and of the active vectors
SpecialRegions ==
    {SHARED_PAGE_VPN \div 256,
     (IF host_vectors_high THEN EXCEPTION_VECTOR_HIGH_VPN
      ELSE EXCEPTION_VECTOR_LOW_VPN) \div 256}

\* C15: after a successful install whose address lies in the 1 MiB region of
\* the shared page or of the active exception-vector base, the shadow L1 entry
\* of that region is Coarse and carries the special domain, whatever domain
\* the caller supplied.
Thm_C15 ==
    [][(Called("install") /\ sh'.ret = 0 /\ sh'.call.vpn \div 256 \in SpecialRegions)
       => /\ Bits(CallL1After, 0, 2) = L1_TYPE_COARSE
          /\ Bits(CallL1After, 5, 4) = KVM_SPECIAL_DOMAIN]_vars

Wit_C15 ==
    /\ sh.op = "install" /\ sh.ret = 0
    /\ sh.call.domain # KVM_SPECIAL_DOMAIN
    /\ ~host_vectors_high
    /\ sh.call.vpn = 1
    /\ Bits(roots[sh.call.root].pgd[0], 5, 4) = KVM_SPECIAL_DOMAIN
    /\ \E r \in LiveRoots : Bits(roots[r].pgd[1], 0, 2) = L1_TYPE_COARSE
                            /\ Bits(roots[r].pgd[1], 5, 4) # KVM_SPECIAL_DOMAIN

\* C16: unmap_page returns success and leaves the L1 entries, the sub-table
\* counts, l2_unused_pt and the page references unchanged; on an address whose
\* L1 entry is Fault or whose L2 entry is already Fault it changes nothing at
\* all; and a second unmap_page of the same address changes nothing further.
Thm_C16 ==
    [][Called("unmap_page")
       => /\ sh'.ret = 0
          /\ UNCHANGED <<roots, shadow_list, l2_unused_pt, host_vectors_high, pages>>
          /\ CountsUnchanged
          /\ (\/ Bits(CallL1, 0, 2) = L1_TYPE_FAULT
              \/ Bits(L2At(frames, CallL1, sh'.call.vpn), 0, 2) = L2_TYPE_FAULT)
                 => frames' = frames
          /\ unmap_gva(roots'[sh'.call.root].pgd, frames', sh'.call.vpn)
                 = [ret |-> 0, frames |-> frames']]_vars

\* unmap_page has cleared a populated entry: its sub-table is still counted
\* and nothing maps the page any more
Wit_C16 ==
    /\ sh.op = "unmap_page" /\ sh.ret = 0
    /\ <<sh.call.root, sh.call.vpn \div 256>> \in CoarseEntries
    /\ \E p \in PfnSet : Outstanding(p) = 1 /\ ReachableEntries(p) = {}
    /\ \A p \in PfnSet : Outstanding(p) = Cardinality(ReachableEntries(p))
                              \/ ReachableEntries(p) = {}
    /\ frames[FrameOf(roots[sh.call.root].pgd[sh.call.vpn \div 256])].private = 1

Released(pg, p) == pg[p].clean + pg[p].dirty
\* the populated entries of the sub-table l1_pte points at that map page p
TableEntries(l1_pte, p) ==
    {j \in L2Used : LET w == frames[FrameOf(l1_pte)].tab[SlotOf(l1_pte)][j]
                    IN  Bits(w, 0, 2) # L2_TYPE_FAULT /\ Bits(w, 12, 20) = p}

\* C17: unmap_section on an address whose L1 entry is Coarse returns success,
\* releases the page of every populated entry of that sub-table exactly once,
\* decrements the owning frame's sub-table count by exactly one, frees the
\* frame if and only if the count reaches zero, and sets the L1 entry to Fault;
\* on an L1 entry that is Fault it returns success and changes nothing.
Cex_C17 ==
    [][Called("unmap_section")
       => IF Bits(CallL1, 0, 2) = L1_TYPE_COARSE
          THEN LET f == FrameOf(CallL1)
               IN  /\ ~sh'.halted /\ sh'.ret = 0
                   /\ CallL1After = 0
                   /\ \A p \in HostPages :
                         Released(pages', p) - Released(pages, p)
                             = Cardinality(TableEntries(CallL1, p))
                   /\ frames'[f].private = frames[f].private - 1
                   /\ frames'[f].free <=> frames'[f].private = 0
          ELSE sh'.ret = 0 /\ ShadowUnchanged]_vars

\* the populated L2 entries of root r's Coarse regions that map page p
RootEntries(r, p) ==
    {x \in L1Used \X L2Used :
        /\ Bits(roots[r].pgd[x[1]], 0, 2) = L1_TYPE_COARSE
        /\ x[2] \in TableEntries(roots[r].pgd[x[1]], p)}
\* the frames that root r's Coarse entries point at and no other root's do
FramesOnlyOf(r) ==
    {f \in FrameIds :
        /\ \E e \in CoarseEntries : e[1] = r /\ FrameOf(roots[r].pgd[e[2]]) = f
        /\ \A e \in CoarseEntries :
              FrameOf(roots[e[1]].pgd[e[2]]) = f => e[1] = r}

\* C18: free_root releases exactly the pages referenced by the non-Fault L2
\* entries of the root's Coarse regions, each once, leaves every host frame
\* used only by that root with a sub-table count of zero and freed, frees the
\* root and removes it from the virtual CPU's list.
Cex_C18 ==
    [][Called("free_root")
       => LET r == sh'.call.root
          IN  /\ ~sh'.halted
              /\ \A p \in HostPages :
                    Released(pages', p) - Released(pages, p)
                        = Cardinality(RootEntries(r, p))
              /\ \A f \in FramesOnlyOf(r) :
                    frames'[f].private = 0 /\ frames'[f].free
              /\ roots'[r].state = "free"
              /\ \A k \in 1..Len(shadow_list') : shadow_list'[k] # r]_vars

\* a mapping is guest-writable when its domain is Manager in the DACR, or
\* Client with access-permission bits that grant read/write
GuestWritable(domain, pte) ==
    \/ vcpu.c3_DACR[domain] = DOMAIN_MANAGER
    \/ /\ vcpu.c3_DACR[domain] = DOMAIN_CLIENT
       /\ kvm_decode_ap(Bits(pte, 4, 2), 0) = KVM_AP_RDWRITE

\* C19: when unmap_section reclaims a sub-table, the page of each populated
\* entry is released as dirty if the mapping is guest-writable under the DACR
\* and the L1 entry's domain, and as clean otherwise.
Cex_C19 ==
    [][(Called("unmap_section") /\ Bits(CallL1, 0, 2) = L1_TYPE_COARSE
          /\ ~sh'.halted)
       => \A p \in HostPages :
             pages'[p].dirty - pages[p].dirty
                 = Cardinality({j \in TableEntries(CallL1, p) :
                       GuestWritable(Bits(CallL1, 5, 4),
                                     L2At(frames, CallL1, j))})]_vars

\* C20: kvm_switch_host_vectors called with the base that is already active
\* returns success and changes no shadow entry, frame count, page reference
\* or flag of the virtual CPU.
Thm_C20 ==
    [][(Called("switch_vectors") /\ sh'.call.high = host_vectors_high)
       => /\ sh'.ret = 0 /\ ~sh'.halted
          /\ ShadowUnchanged
          /\ vcpu' = vcpu]_vars

\* the vectors were switched to the high base, then the high base was asked for
\* again
Wit_C20 ==
    /\ sh.op = "switch_vectors" /\ sh.ret = 0
    /\ sh.call.high /\ host_vectors_high
    /\ sh.call.root = 0
    /\ \E r \in LiveRoots :
          /\ Bits(roots[r].pgd[EXCEPTION_VECTOR_HIGH_VPN \div 256], 0, 2) = L1_TYPE_COARSE
          /\ Bits(L2At(frames, roots[r].pgd[EXCEPTION_VECTOR_HIGH_VPN \div 256],
                        EXCEPTION_VECTOR_HIGH_VPN), 12, 20) = GuestVectorsPfn

\* Page pfn is mapped at vpn by table pgd with the special domain.
MappedAt(pgd, fr, vpn, pfn) ==
    LET l1_pte == pgd[vpn \div 256]
    IN  /\ Bits(l1_pte, 0, 2) = L1_TYPE_COARSE
        /\ Bits(l1_pte, 5, 4) = KVM_SPECIAL_DOMAIN
        /\ Bits(L2At(fr, l1_pte, vpn), 0, 2) # L2_TYPE_FAULT
        /\ Bits(L2At(fr, l1_pte, vpn), 12, 20) = pfn

\* No page is mapped at vpn by table pgd.
NotMappedAt(pgd, fr, vpn) ==
    LET l1_pte == pgd[vpn \div 256]
    IN  \/ Bits(l1_pte, 0, 2) = L1_TYPE_FAULT
        \/ /\ Bits(l1_pte, 0, 2) = L1_TYPE_COARSE
           /\ Bits(L2At(fr, l1_pte, vpn), 0, 2) = L2_TYPE_FAULT

\* C21: a kvm_switch_host_vectors call to the other base, on a root that maps
\* the vector page at the active base, when it returns 0 has the vector page
\* mapped at the new base with the special domain, nothing mapped at the old
\* base and host_vectors_high equal to the new base; when it returns an error,
\* host_vectors_high names a base at which the vector page is mapped.
Cex_C21 ==
    [][(/\ Called("switch_vectors") /\ sh'.call.high # host_vectors_high
        /\ ~sh'.halted
        /\ MappedAt(roots[sh'.call.root].pgd, frames,
                    VCPU_HOST_EXCP_BASE(host_vectors_high), GuestVectorsPfn))
       => LET pgd == roots'[sh'.call.root].pgd
          IN  IF sh'.ret = 0
              THEN /\ MappedAt(pgd, frames', VCPU_HOST_EXCP_BASE(sh'.call.high),
                               GuestVectorsPfn)
                   /\ NotMappedAt(pgd, frames', VCPU_HOST_EXCP_BASE(host_vectors_high))
                   /\ host_vectors_high' = sh'.call.high
              ELSE MappedAt(pgd, frames', VCPU_HOST_EXCP_BASE(host_vectors_high'),
                            GuestVectorsPfn)]_vars

\* A shadow L1 entry that is neither Fault nor Coarse.
BadL1(l1_pte) == Bits(l1_pte, 0, 2) \notin {L1_TYPE_FAULT, L1_TYPE_COARSE}

\* A Coarse shadow L1 entry whose sub-table holds a large-page descriptor.
HasLarge(fr, l1_pte) ==
    /\ Bits(l1_pte, 0, 2) = L1_TYPE_COARSE
    /\ \E j \in L2Used : Bits(fr[FrameOf(l1_pte)].tab[SlotOf(l1_pte)][j], 0, 2)
                             = L2_TYPE_LARGE

\* C22: map_gva_to_pfn (with a consistent permission pair), unmap_gva and
\* unmap_gva_section called for an address whose shadow L1 entry is neither
\* Fault nor Coarse, kvm_free_l1_shadow called for a table that holds such an
\* entry, and every release of a sub-table that holds a large-page
\* descriptor, halt and do not return.
Cex_C22 ==
    [][(\/ Called("install") /\ Accepted /\ BadL1(CallL1)
        \/ Called("unmap_page") /\ BadL1(CallL1)
        \/ Called("unmap_section") /\ (BadL1(CallL1) \/ HasLarge(frames, CallL1))
        \/ /\ Called("free_root")
           /\ \E i \in L1Used : LET l1_pte == roots[sh'.call.root].pgd[i]
                                 IN  BadL1(l1_pte) \/ HasLarge(frames, l1_pte))
       => sh'.halted]_vars

\* C23: an install that returns -ENOMEM was for an address whose L1 entry is
\* Fault, with no partly used page of sub-tables at hand (l2_unused_pt NULL);
\* it leaves the L1 entry Fault and changes no table, no frame count, no page
\* reference and not l2_unused_pt.
Thm_C23 ==
    [][(Called("install") /\ sh'.ret = -ENOMEM)
       => /\ Accepted
          /\ Bits(CallL1, 0, 2) = L1_TYPE_FAULT
          /\ Bits(CallL1After, 0, 2) = L1_TYPE_FAULT
          /\ l2_unused_pt = 0
          /\ CountsUnchanged
          /\ ShadowUnchanged]_vars

\* an install into an empty root failed for want of a page
Wit_C23 ==
    /\ sh.op = "install" /\ sh.ret = -ENOMEM /\ ~sh.halted
    /\ sh.call.root \in LiveRoots
    /\ Bits(roots[sh.call.root].pgd[sh.call.vpn \div 256], 0, 2) = L1_TYPE_FAULT
    /\ l2_unused_pt = 0
    /\ \A f \in FrameIds : frames[f].free

\* C24: kvm_alloc_l1_shadow, when it succeeds, returns a root whose L1 entries
\* are all Fault, whose guest_ttbr is the given value and which is the new
\* last element of the list of the virtual CPU; when it fails it returns
\* -ENOMEM, leaves the list unchanged and holds no allocation.
Cex_C24 ==
    [][Called("alloc_root")
       => IF sh'.ret = 0
          THEN LET r == sh'.call.root
               IN  /\ roots[r].state = "free" /\ roots'[r].state = "live"
                   /\ \A i \in L1Used : Bits(roots'[r].pgd[i], 0, 2) = L1_TYPE_FAULT
                   /\ roots'[r].guest_ttbr = vcpu.ttbr
                   /\ shadow_list' = Append(shadow_list, r)
          ELSE /\ sh'.ret = -ENOMEM
               /\ shadow_list' = shadow_list
               /\ \A r \in RootIds : roots'[r].state = roots[r].state]_vars

\* Table pgd maps the shared page, and the vector page at the base hvh names,
\* both with the special domain.
SpecialMapped(pgd, fr, hvh) ==
    /\ MappedAt(pgd, fr, SHARED_PAGE_VPN, SharedPagePfn)
    /\ MappedAt(pgd, fr, VCPU_HOST_EXCP_BASE(hvh), GuestVectorsPfn)

\* The count of every frame in use is the number of Coarse entries of live
\* roots that point into it.
CountsExact(rts, fr) ==
    \A f \in FrameIds :
        ~fr[f].free
           => fr[f].private
                 = Cardinality({e \in RootIds \X L1Used :
                       /\ rts[e[1]].state = "live"
                       /\ Bits(rts[e[1]].pgd[e[2]], 0, 2) = L1_TYPE_COARSE
                       /\ FrameOf(rts[e[1]].pgd[e[2]]) = f})

\* C25: a kvm_init_l1_shadow that returns 0 leaves the sub-tables the root
\* held before released (the frame counts stay exact) and the root mapping
\* the shared page and the vector page at the active base with the special
\* domain, and no other page; a later kvm_switch_host_vectors on that root,
\* or a later install at another page of it, leaves both pages mapped, the
\* vector page at the base that is then active.
Cex_C25 ==
    [][/\ (Called("init_root") /\ sh'.ret = 0 /\ ~sh'.halted)
          => LET pgd == roots'[sh'.call.root].pgd
             IN  /\ SpecialMapped(pgd, frames', host_vectors_high')
                 /\ \A vpn \in ShadowVpns \ {SHARED_PAGE_VPN,
                                              VCPU_HOST_EXCP_BASE(host_vectors_high')} :
                        NotMappedAt(pgd, frames', vpn)
                 /\ CountsExact(roots, frames) => CountsExact(roots', frames')
       /\ (IF Called("switch_vectors") /\ sh'.call.root # 0
           THEN SpecialMapped(roots[sh'.call.root].pgd, frames, host_vectors_high)
           ELSE /\ Called("install")
                /\ sh'.call.vpn \notin {SHARED_PAGE_VPN, EXCEPTION_VECTOR_LOW_VPN,
                                        EXCEPTION_VECTOR_HIGH_VPN}
                /\ SpecialMapped(roots[sh'.call.root].pgd, frames, host_vectors_high))
          => (sh'.halted
                \/ SpecialMapped(roots'[sh'.call.root].pgd, frames',
                                 host_vectors_high'))]_vars

\* C26: after kvm_generate_mmu_fault(vcpu, fault_addr, source, domain), for a
\* prefetch abort c5_IFSR is (source & 0xf) | ((domain & 0xf) << 4) and the
\* prefetch exception is pending; for a data abort c6_FAR is fault_addr,
\* c5_DFSR is (source & 0xf) | ((domain & 0xf) << 4) and the data exception is
\* pending.
Cex_C26 ==
    excp.pc = "injected"
       => LET fsr == Bits(excp.call.source, 0, 4) + (excp.call.domain % 16) * 16
          IN  IF excp.guest_exception = ARM_EXCEPTION_PREF_ABORT
              THEN /\ excp.c5_IFSR = fsr
                   /\ EXCEPTION_PREFETCH \in excp.exception_pending
              ELSE /\ excp.c6_FAR = excp.call.fault_addr
                   /\ excp.c5_DFSR = fsr
                   /\ EXCEPTION_DATA \in excp.exception_pending

\* C27: for every extended small-page L2 descriptor d, decoding d, encoding
\* the decoded tuple as the install path does and decoding that word again
\* gives the tuple (frame, ap, apx, xn, cache bits) that decoding d gave.
Cex_C27 ==
    codec.pc = "redecoded" => codec.second = codec.first

\* the Coarse L1 entries, of both virtual CPUs, that point into frame f
SmpEntries(f) ==
    {e \in VcpuIds \X SmpL1 :
        /\ Bits(smp.pgd[e[1]][e[2]], 0, 2) = L1_TYPE_COARSE
        /\ FrameOf(smp.pgd[e[1]][e[2]]) = f}

\* C28: with two virtual CPUs running install, unmap_section and free_root in
\* any interleaving, page_private of every host frame equals the number of
\* Coarse L1 entries, over the roots of both virtual CPUs, that point to a
\* sub-table in that frame.
Cex_C28 ==
    \A f \in FrameIds : smp.private[f] = Cardinality(SmpEntries(f))

\* C29: after a walk that read a Coarse L1 descriptor, or a Section L1
\* descriptor that is not a Supersection, map_info.domain_number is bits [8:5]
\* of the descriptor, whatever its other bits are.
Cex_C29 ==
    (/\ Walked /\ L1Readable
     /\ \/ L1Is(L1_TYPE_COARSE)
        \/ L1Is(L1_TYPE_SECTION) /\ ~is_supersection(L1Entry))
       => walk.map_info.domain_number = DescDomain

\* the result of gva_to_gfn on the page tables, address and MMU mode of this
\* state, with domain-access-control register dacr and privilege level uaccess
WalkWith(dacr, uaccess) ==
    gva_to_gfn([vcpu EXCEPT !.c3_DACR = dacr], memslots, gmem, req.gva, uaccess,
               NoGfn, NoMapInfo).res

\* C30: the frame gva_to_gfn produced, whether it halted, and any negative
\* error it returned are those of every run on the same page tables, address
\* and MMU mode with another domain-access-control register value or another
\* privilege level; such runs differ at most in the fault code.
Thm_C30 ==
    Walked
       => \A dacr \in DacrSet, uaccess \in {0, 1} :
             LET o == WalkWith(dacr, uaccess)
             IN  /\ o.gfn = walk.gfn
                 /\ o.bug = (walk.pc = "bug")
                 /\ (o.ret < 0 \/ walk.ret < 0) => o.ret = walk.ret
                 /\ o.ret >= 0 => o.ret \in FaultCodes \cup {0}

\* a walk of a mapped page was refused with a fault code, and succeeds with
\* the same frame under another register value or privilege level
Wit_C30 ==
    /\ Returned /\ walk.ret \in FaultCodes /\ walk.gfn # NoGfn
    /\ L2IsPage
    /\ \E dacr \in DacrSet, uaccess \in {0, 1} :
          /\ WalkWith(dacr, uaccess).ret = 0
          /\ WalkWith(dacr, uaccess).gfn = walk.gfn

\* C31: a successful install with a guest domain into the 1 MiB region of the
\* shared page or of the active vector base writes an L2 entry whose
\* permission bits follow the class of that domain in the DACR: No-Access
\* gives AP 0 and APX 0, Manager gives AP 3 and APX 0, Client gives the AP and
\* APX computed from the caller's privileged and user permissions.
Thm_C31 ==
    [][(Called("install") /\ sh'.ret = 0
          /\ sh'.call.domain # KVM_SPECIAL_DOMAIN
          /\ sh'.call.vpn \div 256 \in SpecialRegions)
       => LET w == L2At(frames', CallL1After, sh'.call.vpn)
              c == calc_aps(sh'.call.priv_ap, sh'.call.user_ap)
              class == DacrClass(sh'.call.domain)
          IN  /\ Bits(w, 12, 20) = sh'.call.pfn
              /\ class = DOMAIN_NOACCESS => Bits(w, 4, 2) = 0 /\ Bits(w, 9, 1) = 0
              /\ class = DOMAIN_MANAGER => Bits(w, 4, 2) = 3 /\ Bits(w, 9, 1) = 0
              /\ class = DOMAIN_CLIENT
                    => Bits(w, 4, 2) = c.ap /\ Bits(w, 9, 1) = c.apx]_vars

\* a read-only mapping was installed next to the low vectors under a Manager
\* domain and came out read/write
Wit_C31 ==
    /\ sh.op = "install" /\ sh.ret = 0
    /\ ~host_vectors_high
    /\ sh.call.vpn = 1
    /\ sh.call.domain = 0 /\ DacrClass(0) = DOMAIN_MANAGER
    /\ sh.call.priv_ap = KVM_AP_RDONLY /\ sh.call.user_ap = KVM_AP_RDONLY
    /\ LET l1 == roots[sh.call.root].pgd[sh.call.vpn \div 256]
       IN  /\ Bits(L2At(frames, l1, sh.call.vpn), 4, 2) = 3
           /\ Bits(L2At(frames, l1, sh.call.vpn), 9, 1) = 0

\* the domain __map_gva_to_pfn puts in the L1 entry: the special domain in the
\* special regions, the caller's domain elsewhere
InstallDomain ==
    IF sh'.call.vpn \div 256 \in SpecialRegions THEN KVM_SPECIAL_DOMAIN
    ELSE sh'.call.domain

\* C32: an install (with a consistent permission pair) on an L1 entry that is
\* already Coarse sets the domain field of that entry to the domain of this
\* install, overridden to the special domain in the special regions, and
\* leaves every other bit of the entry, every other L1 entry and every other
\* L2 entry of the sub-table as they were: the pages mapped there earlier
\* are now under the domain of this install.
Thm_C32 ==
    [][(Called("install") /\ Accepted /\ Bits(CallL1, 0, 2) = L1_TYPE_COARSE)
       => /\ Bits(CallL1After, 5, 4) = InstallDomain
          /\ CallL1After \div 512 = CallL1 \div 512
          /\ Bits(CallL1After, 0, 5) = Bits(CallL1, 0, 5)
          /\ \A r \in RootIds, i \in L1Used :
                <<r, i>> # <<sh'.call.root, sh'.call.vpn \div 256>>
                   => roots'[r].pgd[i] = roots[r].pgd[i]
          /\ \A j \in L2Used \ {sh'.call.vpn % 256} :
                L2At(frames', CallL1After, j) = L2At(frames, CallL1, j)]_vars

\* the second install into a region came with another domain: the page
\* mapped first is still there, under the domain of the second install
Wit_C32 ==
    /\ sh.op = "install" /\ sh.ret = 0
    /\ sh.call.vpn = 257 /\ sh.call.domain = 1
    /\ LET l1 == roots[sh.call.root].pgd[1]
       IN  /\ Bits(l1, 0, 2) = L1_TYPE_COARSE
           /\ Bits(l1, 5, 4) = 1
           /\ Bits(L2At(frames, l1, 256), 0, 2) # L2_TYPE_FAULT
           /\ Bits(L2At(frames, l1, 256), 4, 2) = 3

\* C33: after any sequence of install, unmap_section, free_root and root
\* initialisation, no Coarse entry of a live root and no l2_unused_pt points
\* into a host frame that has been freed.
Cex_C33 ==
    /\ l2_unused_pt # 0 => ~frames[l2_unused_pt \div (2^PAGE_SHIFT)].free
    /\ \A e \in CoarseEntries : ~frames[FrameOf(roots[e[1]].pgd[e[2]])].free

\* C34: once every root has been freed, each guest page has been released as
\* many times as it was handed to a successful install: the pages of
\* overwritten and of cleared L2 entries were released on the way.
Cex_C34 ==
    (LiveRoots = {} /\ sh.op = "free_root" /\ ~sh.halted)
       => \A p \in PfnSet : Released(pages, p) = pages[p].pinned

\* C35: over root initialisation, switches of the vector base and free_root,
\* the guest vector page is never released more often than a reference was
\* taken on it, and once every root has been freed it has been released
\* exactly as often.
Cex_C35 ==
    /\ Released(pages, GuestVectorsPfn) <= pages[GuestVectorsPfn].pinned
    /\ (LiveRoots = {} /\ sh.op = "free_root" /\ ~sh.halted)
          => Released(pages, GuestVectorsPfn) = pages[GuestVectorsPfn].pinned

\* C36: while the children of a root are released, every index at which the
\* root table is accessed lies in 0..4095.
Cex_C36 == scan.top \in 0..(L1_TABLE_ENTRIES - 1)

Cex_C38 ==
    (\A t \in VdevCallers : vdev.pc[t] = "idle")
       => /\ vdev.refcnt = vdev.handles
          /\ vdev.handles > 0 <=> (vdev.regions = "ready" /\ vdev.irqs = "ready")

\* A context returns from vfio_irq_handler and its eventfd_signal is counted.
VirqSignalled(c) ==
    virq.pc[c] = "tail" /\ virq'.pc[c] = "idle" /\ virq'.sigs = virq.sigs + 1

\* C39: in every step the masked flag is true exactly when the driver holds
\* one outstanding disable of the line (depth 1 when masked, else 0); the
\* eventfd is signalled only by a handler run that found the interrupt
\* unmasked; and between two unmasks at most one handler run finds an
\* auto-masked interrupt unmasked, so that the signals never exceed the
\* unmasks by more than one (the signal of a run may be raised after the
\* next unmask).
Thm_C39 ==
    [][/\ virq'.depth = (IF virq'.masked THEN 1 ELSE 0)
       /\ virq'.sigs # virq.sigs
             => \E c \in VirqCtx : VirqSignalled(c) /\ ~virq.saw[c]
       /\ virq'.automasked
             => virq'.since_found <= 1 /\ virq'.sigs <= virq'.unmasks + 1]_vars

\* C39 witness: an auto-masked interrupt was signalled, unmasked, and taken and
\* signalled again; it is masked with one disable outstanding.
Wit_C39 ==
    /\ virq.automasked /\ virq.masked /\ virq.depth = 1
    /\ virq.unmasks >= 1 /\ virq.sigs = 2 /\ virq.since_sig = 1

\* C39 as stated: as above, but an auto-masked interrupt is signalled at most
\* once between two unmasks.
Cex_C39 ==
    [][/\ virq'.depth = (IF virq'.masked THEN 1 ELSE 0)
       /\ virq'.sigs # virq.sigs
             => \E c \in VirqCtx : VirqSignalled(c) /\ ~virq.saw[c]
       /\ virq'.automasked => virq'.since_sig <= 1]_vars

====
